---- MODULE Spec2Model ----
(***************************************************************************)
(* A model of the skill extraction engine of skill_sense:                  *)
(*   app/services/skill_service.py  SkillMatcher, SkillExtractionService   *)
(*   app/skills/taxonomy.py         TaxonomyMapper                         *)
(*                                                                         *)
(* A Python str is a sequence of one-character strings, so that lower(),   *)
(* slicing, substring search and the regular expressions of the source are *)
(* computed character by character.  The two non-ASCII list glyphs of the  *)
(* source (U+2022 and U+00B7) are the characters "BULLET" and "MIDDOT".    *)
(* Offsets are the 0-based offsets of the source; Slice(s, a, b) is the    *)
(* Python slice s[a:b].  Scores and confidences are in hundredths          *)
(* (0.45 is 45); the weighted sum of _calculate_confidence is computed     *)
(* exactly as a fraction and rounded to the nearest hundredth, ties to     *)
(* even, where the source rounds a binary float with round(x, 2).          *)
(***************************************************************************)
EXTENDS Integers, Sequences, FiniteSets, TLC

VARIABLES
    pc,            \* the operation that ran last ("idle" before the first)
    taxonomy,      \* the records of taxonomy_map.json, in file order
    cache,         \* SkillMatcher._cache: the index built from the taxonomy
    excluded,      \* SkillMatcher.excluded of the shared matcher
    text,          \* match, _extract_skills: the text given
    arg_structured,    \* _extract_skills: processed_data["skills"]
    raw_matches,   \* match: the candidates before overlap resolution
    matches,       \* match: the list returned
    arg_phrase,        \* resolve_phrase: the phrase given
    resolved,      \* resolve_phrase: the entry returned, none for None
    skill_list,        \* _extract_skills: the list returned
    scored,        \* _score_evidence: the arguments and the score returned
    ev_list,      \* _calculate_confidence: the evidence list given
    ev_confidence,    \* _calculate_confidence: the value returned
    merge_resume, \* _merge_skills: the first argument
    merge_github, \* _merge_skills: the second argument
    merged,        \* _merge_skills: the list returned
    profiles,      \* the rows of the table skill_profiles
    last,          \* create_skill_profile: the arguments and result of the last call
    audit,         \* the rows of the table skill_audit_logs
    response,      \* update_skill_action: the request and the tuple returned
    succeeded,     \* update_skill_action: the number of calls that returned True
    calls,         \* overlapping update_skill_action calls: where each one is
    taxonomy_file, \* the file taxonomy_map.json
    built,         \* the number of _build_index runs of the process
    cache_id,      \* the object in SkillMatcher._cache: the run that built it, 0 for None
    threads,       \* SkillMatcher(...) under construction: where each thread is
    shared,        \* SkillMatcher._shared_instance and the last caller of shared()
    job            \* match_job: the request, what the embeddings gave, and the response

matcherVars == <<taxonomy, cache, excluded>>
engineVars == <<text, arg_structured, raw_matches, matches, arg_phrase, resolved, skill_list>>
scoreVars == <<scored, ev_list, ev_confidence>>
mergeVars == <<merge_resume, merge_github, merged>>
serviceVars == <<profiles, last>>
lifecycleVars == <<audit, response, succeeded>>
processVars == <<taxonomy_file, built, cache_id, threads, shared>>
otherVars == <<lifecycleVars, calls, processVars, job>>
vars == <<pc, matcherVars, engineVars, scoreVars, mergeVars, serviceVars, otherVars>>

None == "None"

Min(a, b) == IF a < b THEN a ELSE b
Max(a, b) == IF a > b THEN a ELSE b

(***************************************************************************)
(* Python str operations                                                   *)
(***************************************************************************)
Range(s) == {s[i] : i \in 1..Len(s)}

LowerAlpha == <<"a","b","c","d","e","f","g","h","i","j","k","l","m","n","o","p","q","r","s","t","u","v","w","x","y","z">>
UpperAlpha == <<"A","B","C","D","E","F","G","H","I","J","K","L","M","N","O","P","Q","R","S","T","U","V","W","X","Y","Z">>
LowerSet == Range(LowerAlpha)
UpperSet == Range(UpperAlpha)
DigitSet == Range(<<"0","1","2","3","4","5","6","7","8","9">>)
Whitespace == {" ", "\n"}

\* str.isalpha() of one character
IsAlpha(c) == c \in LowerSet \cup UpperSet
\* the class \w of re
IsWordChar(c) == c \in LowerSet \cup UpperSet \cup DigitSet \cup {"_"}

LowerChar(c) ==
    IF c \in UpperSet
    THEN LowerAlpha[CHOOSE i \in 1..26 : UpperAlpha[i] = c]
    ELSE c

\* str.lower()
Lower(s) == [i \in 1..Len(s) |-> LowerChar(s[i])]

\* s[a:b] for 0 <= a
Slice(s, a, b) == SubSeq(s, a + 1, Min(b, Len(s)))

\* s[i:].startswith(sub), i a 0-based offset
StartsWithAt(s, i, sub) ==
    /\ i + Len(sub) <= Len(s)
    /\ \A j \in 1..Len(sub) : s[i + j] = sub[j]

\* sub in s
Contains(s, sub) == \E i \in 0..(Len(s) - Len(sub)) : StartsWithAt(s, i, sub)

\* any(sub in s for sub in subs)
ContainsAny(s, subs) == \E sub \in subs : Contains(s, sub)

RECURSIVE str_replace(_, _, _)
\* s.replace(ch, rep) for a one-character ch
str_replace(s, ch, rep) ==
    IF s = <<>> THEN <<>>
    ELSE (IF Head(s) = ch THEN rep ELSE <<Head(s)>>) \o str_replace(Tail(s), ch, rep)

RECURSIVE LStripLen(_, _)
LStripLen(s, i) == IF i < Len(s) /\ s[i + 1] \in Whitespace THEN LStripLen(s, i + 1) ELSE i
RECURSIVE RStripLen(_, _)
RStripLen(s, n) == IF n > 0 /\ s[n] \in Whitespace THEN RStripLen(s, n - 1) ELSE n

\* str.strip()
Strip(s) == Slice(s, LStripLen(s, 0), RStripLen(s, Len(s)))

RECURSIVE join(_)
\* " ".join(tokens)
join(tokens) ==
    IF tokens = <<>> THEN <<>>
    ELSE IF Len(tokens) = 1 THEN tokens[1]
    ELSE tokens[1] \o <<" ">> \o join(Tail(tokens))

RECURSIVE SetToSeq(_)
\* the elements of a set in one fixed order
SetToSeq(S) ==
    IF S = {} THEN <<>>
    ELSE LET x == CHOOSE y \in S : TRUE IN <<x>> \o SetToSeq(S \ {x})

(***************************************************************************)
(* SkillMatcher: tables                                                    *)
(***************************************************************************)
\* TOKEN_PATTERN = [a-z0-9\+\#\.]+
IsTokenChar(c) == c \in LowerSet \cup DigitSet \cup {"+", "#", "."}

SHORT_TOKEN_WHITELIST ==
    {<<"s","q","l">>, <<"a","w","s">>, <<"g","i","t">>, <<"c","s","s">>, <<"h","t","m","l">>, <<"u","x">>, <<"u","i">>, <<"q","a">>,
     <<"b","i">>, <<"s","a","p">>, <<"s","a","s">>, <<"e","t","l">>, <<"c","r","m">>}

GENERIC_SINGLE_TOKENS ==
    {<<"e","x","c","e","l">>, <<"w","o","r","d">>, <<"o","f","f","i","c","e">>, <<"d","r","i","v","e">>, <<"a","c","c","e","s","s">>, <<"o","u","t","l","o","o","k">>, <<"t","e","a","m","s">>}

STRICT_CONTEXT_TERMS ==
    {[term |-> <<"e","x","c","e","l">>, keywords |-> {<<"m","i","c","r","o","s","o","f","t">>, <<"m","s"," ","o","f","f","i","c","e">>, <<"s","p","r","e","a","d","s","h","e","e","t">>}, allow_list |-> TRUE],
     [term |-> <<"w","o","r","d">>, keywords |-> {<<"m","i","c","r","o","s","o","f","t">>, <<"m","s"," ","o","f","f","i","c","e">>, <<"d","o","c","u","m","e","n","t">>}, allow_list |-> TRUE],
     [term |-> <<"o","f","f","i","c","e">>, keywords |-> {<<"m","i","c","r","o","s","o","f","t">>, <<"m","s"," ","o","f","f","i","c","e">>, <<"s","u","i","t","e">>}, allow_list |-> TRUE],
     [term |-> <<"d","r","i","v","e">>, keywords |-> {<<"g","o","o","g","l","e">>, <<"g"," ","s","u","i","t","e">>, <<"w","o","r","k","s","p","a","c","e">>}, allow_list |-> TRUE],
     [term |-> <<"a","c","c","e","s","s">>, keywords |-> {<<"m","i","c","r","o","s","o","f","t">>, <<"d","a","t","a","b","a","s","e">>}, allow_list |-> TRUE],
     [term |-> <<"o","u","t","l","o","o","k">>, keywords |-> {<<"m","i","c","r","o","s","o","f","t">>, <<"m","s">>}, allow_list |-> TRUE],
     [term |-> <<"t","e","a","m","s">>, keywords |-> {<<"m","i","c","r","o","s","o","f","t">>, <<"m","s">>}, allow_list |-> TRUE],
     [term |-> <<"g","o","o","g","l","e">>, keywords |-> {<<"s","e","a","r","c","h">>, <<"e","n","g","i","n","e">>, <<"s","e","o">>, <<"a","d","s">>, <<"r","e","s","u","l","t","s">>, <<"q","u","e","r","y">>}, allow_list |-> FALSE],
     [term |-> <<"y","a","h","o","o">>, keywords |-> {<<"s","e","a","r","c","h">>, <<"e","n","g","i","n","e">>, <<"s","e","o">>}, allow_list |-> FALSE],
     [term |-> <<"l","o","g","i","c">>, keywords |-> {<<"f","o","r","m","a","l"," ","l","o","g","i","c">>, <<"l","o","g","i","c","a","l">>, <<"b","o","o","l","e","a","n">>, <<"s","y","m","b","o","l","i","c">>, <<"c","i","r","c","u","i","t">>, <<"p","r","e","d","i","c","a","t","e">>}, allow_list |-> FALSE],
     [term |-> <<"r","e","p","o","r","t">>, keywords |-> {<<"f","a","c","t","s">>, <<"w","r","i","t","e">>, <<"w","r","i","t","i","n","g">>, <<"p","r","e","p","a","r","e">>, <<"d","r","a","f","t">>, <<"d","o","c","u","m","e","n","t">>, <<"s","t","a","t","e","m","e","n","t">>}, allow_list |-> FALSE],
     [term |-> <<"s","o","u","r","c","e">>, keywords |-> {<<"g","a","m","e">>, <<"e","n","g","i","n","e">>, <<"v","a","l","v","e">>, <<"h","a","m","m","e","r">>, <<"s","d","k">>}, allow_list |-> FALSE]}

GENERAL_CONTEXT_KEYWORDS ==
    {<<"e","x","p","e","r","i","e","n","c","e">>, <<"e","x","p","e","r","i","e","n","c","e","s">>, <<"s","k","i","l","l">>, <<"s","k","i","l","l","s">>, <<"s","k","i","l","l","e","d">>,
     <<"p","r","o","f","i","c","i","e","n","t">>, <<"p","r","o","f","i","c","i","e","n","c","y">>, <<"k","n","o","w","l","e","d","g","e">>, <<"f","a","m","i","l","i","a","r">>, <<"f","a","m","i","l","i","a","r","i","t","y">>,
     <<"u","s","i","n","g">>, <<"u","s","e">>, <<"u","t","i","l","i","z","e","d">>, <<"u","t","i","l","i","s","e","d">>, <<"e","x","p","e","r","t","i","s","e">>, <<"c","e","r","t","i","f","i","e","d">>,
     <<"t","o","o","l","s">>, <<"t","e","c","h","n","o","l","o","g","i","e","s">>, <<"t","e","c","h","n","o","l","o","g","y">>, <<"f","r","a","m","e","w","o","r","k">>, <<"f","r","a","m","e","w","o","r","k","s">>,
     <<"s","t","a","c","k">>, <<"w","o","r","k","e","d">>, <<"h","a","n","d","s","-","o","n">>, <<"h","a","n","d","s"," ","o","n">>, <<"b","a","c","k","g","r","o","u","n","d">>, <<"p","r","o","j","e","c","t","s">>,
     <<"r","e","s","p","o","n","s","i","b","l","e"," ","f","o","r">>, <<"c","o","m","p","e","t","e","n","c","y">>, <<"c","o","m","p","e","t","e","n","c","i","e","s">>}

LIST_SYMBOLS == {"BULLET", "MIDDOT", "-", "*"}

(***************************************************************************)
(* SkillMatcher: tokens and token variants                                 *)
(***************************************************************************)
RECURSIVE TokenEnd(_, _)
\* the end of the maximal run of token characters that reaches offset e
TokenEnd(s, e) == IF e < Len(s) /\ IsTokenChar(s[e + 1]) THEN TokenEnd(s, e + 1) ELSE e

RECURSIVE finditer(_, _)
\* TOKEN_PATTERN.finditer(s) from offset p on: the spans of the tokens
finditer(s, p) ==
    IF p >= Len(s) THEN <<>>
    ELSE IF IsTokenChar(s[p + 1])
         THEN LET e == TokenEnd(s, p + 1)
              IN <<[start |-> p, end |-> e]>> \o finditer(s, e)
         ELSE finditer(s, p + 1)

\* TOKEN_PATTERN.findall(s): the tokens
findall(s) ==
    LET spans == finditer(s, 0)
    IN [i \in 1..Len(spans) |-> Slice(s, spans[i].start, spans[i].end)]

REPLACEMENTS ==
    << <<"/", <<" ">>>>, <<"-", <<" ">>>>, <<"_", <<" ">>>>, <<"&", <<" ","a","n","d"," ">>>>, <<"+", <<" ","p","l","u","s"," ">>>> >>

RECURSIVE apply_replacements(_, _)
apply_replacements(variants, k) ==
    IF k > Len(REPLACEMENTS) THEN variants
    ELSE LET ch == REPLACEMENTS[k][1]
             updated == {str_replace(v, ch, REPLACEMENTS[k][2]) :
                           v \in {w \in variants : ch \in Range(w)}}
         IN apply_replacements(variants \cup updated, k + 1)

\* the set of token tuples of a phrase
generate_token_variants(phrase) ==
    IF phrase = <<>> THEN {}
    ELSE LET variants == apply_replacements({Lower(phrase)}, 1)
             dotted_variants ==
                 variants \cup {str_replace(v, ".", <<" ">>) :
                                   v \in {w \in variants : "." \in Range(w)}}
         IN {findall(v) : v \in dotted_variants} \ {<<>>}

should_require_context(tokens) ==
    IF Len(tokens) > 1 THEN FALSE
    ELSE IF tokens[1] \in SHORT_TOKEN_WHITELIST THEN FALSE
    ELSE IF Len(tokens[1]) <= 2 THEN TRUE
    ELSE IF \E r \in STRICT_CONTEXT_TERMS : r.term = tokens[1] THEN TRUE
    ELSE tokens[1] \in GENERIC_SINGLE_TOKENS

(***************************************************************************)
(* TaxonomyMapper                                                          *)
(* A taxonomy is the sequence of the records of the JSON file; a record is *)
(* known by its position, as the source knows a dict by id().  The dict    *)
(* _taxonomy_map is a sequence of key/value pairs in insertion order.      *)
(***************************************************************************)
dict_set(d, k, v) ==
    IF \E i \in 1..Len(d) : d[i].key = k
    THEN [i \in 1..Len(d) |-> IF d[i].key = k THEN [key |-> k, val |-> v] ELSE d[i]]
    ELSE Append(d, [key |-> k, val |-> v])

RECURSIVE index_aliases(_, _, _, _)
index_aliases(d, aliases, k, id) ==
    IF k > Len(aliases) THEN d
    ELSE index_aliases(IF aliases[k] # <<>> THEN dict_set(d, Lower(aliases[k]), id) ELSE d,
                       aliases, k + 1, id)

RECURSIVE load_from(_, _, _)
\* the loop of _load_taxonomy: a record without the key skill_name raises
\* KeyError, which ends the loop and leaves the keys set so far
load_from(d, mappings, id) ==
    IF id > Len(mappings) \/ "skill_name" \notin DOMAIN mappings[id] THEN d
    ELSE load_from(index_aliases(dict_set(d, Lower(mappings[id].skill_name), id),
                                 mappings[id].aliases, 1, id),
                   mappings, id + 1)

\* TaxonomyMapper._load_taxonomy: _taxonomy_map
load_taxonomy(mappings) == load_from(<<>>, mappings, 1)

\* TaxonomyMapper.get_mapping: the record's position, 0 for None
get_mapping(mappings, skill_name) ==
    LET d == load_taxonomy(mappings)
        k == Lower(skill_name)
    IN IF \E i \in 1..Len(d) : d[i].key = k
       THEN d[CHOOSE i \in 1..Len(d) : d[i].key = k].val
       ELSE 0

RECURSIVE unique_values(_, _, _)
unique_values(d, i, seen) ==
    IF i > Len(d) THEN <<>>
    ELSE IF d[i].val \in seen THEN unique_values(d, i + 1, seen)
    ELSE <<d[i].val>> \o unique_values(d, i + 1, seen \cup {d[i].val})

\* TaxonomyMapper.get_all_mappings: the positions of the distinct records
get_all_mappings(mappings) == unique_values(load_taxonomy(mappings), 1, {})

(***************************************************************************)
(* SkillMatcher._build_index                                               *)
(***************************************************************************)
put(f, k, v) == (k :> v) @@ f

EmptyBuild == [index |-> <<>>, normalized_lookup |-> <<>>, unique_entries |-> <<>>, max_tokens |-> 0]

\* the body of the innermost loop, for one token variant of one alias
add_variant(st, m, phrase, tokens) ==
    LET normalized == join(tokens)
        key == <<Lower(m.skill_name), normalized>>
        isnew == key \notin DOMAIN st.unique_entries
        entry == IF isnew
                 THEN [canonical_name |-> m.skill_name, alias |-> phrase,
                       normalized |-> normalized, tokens |-> tokens,
                       esco_id |-> m.esco_id, category |-> m.category,
                       requires_context |-> should_require_context(tokens)]
                 ELSE st.unique_entries[key]
        first == tokens[1]
        bucket == IF first \in DOMAIN st.index THEN st.index[first] ELSE <<>>
    IN [index |-> put(st.index, first, Append(bucket, entry)),
        normalized_lookup |->
            IF normalized \in DOMAIN st.normalized_lookup THEN st.normalized_lookup
            ELSE put(st.normalized_lookup, normalized, entry),
        unique_entries |-> IF isnew THEN put(st.unique_entries, key, entry) ELSE st.unique_entries,
        max_tokens |-> IF isnew THEN Max(st.max_tokens, Len(tokens)) ELSE st.max_tokens]

RECURSIVE add_variants(_, _, _, _)
\* the token variants of one alias; a Python set is iterated in an order the
\* program does not fix, and no result of match depends on it: entries of one
\* alias differ in their token tuples, so no two of them tie on one span
add_variants(st, m, phrase, variants) ==
    IF variants = <<>> THEN st
    ELSE LET nxt == add_variant(st, m, phrase, Head(variants))
         IN IF nxt.max_tokens >= 0 THEN add_variants(nxt, m, phrase, Tail(variants)) ELSE nxt

RECURSIVE add_aliases(_, _, _)
add_aliases(st, m, aliases) ==
    IF aliases = <<>> THEN st
    ELSE LET nxt == add_variants(st, m, Head(aliases),
                                 SetToSeq(generate_token_variants(Head(aliases))))
         IN IF nxt.max_tokens >= 0 THEN add_aliases(nxt, m, Tail(aliases)) ELSE nxt

RECURSIVE add_mappings(_, _, _)
add_mappings(st, mappings, ids) ==
    IF ids = <<>> THEN st
    ELSE LET m == mappings[Head(ids)]
             nxt == IF m.skill_name = <<>> THEN st
                    ELSE add_aliases(st, m, <<m.skill_name>> \o m.aliases)
         IN IF nxt.max_tokens >= 0 THEN add_mappings(nxt, mappings, Tail(ids)) ELSE nxt

\* the dict _build_index returns: unique_entries is local to it
build_index(mappings) ==
    LET st == add_mappings(EmptyBuild, mappings, get_all_mappings(mappings))
    IN [index |-> st.index, normalized_lookup |-> st.normalized_lookup,
        max_tokens |-> st.max_tokens]

(***************************************************************************)
(* SkillMatcher: context validation                                        *)
(***************************************************************************)
\* _extract_context: text[max(0, start - radius):min(len(text), end + radius)]
extract_context(txt, start, end, radius) ==
    Slice(txt, Max(0, start - radius), Min(Len(txt), end + radius))

\* the assertion \b of re at offset i of s
WordBoundary(s, i) ==
    (i > 0 /\ IsWordChar(s[i])) # (i < Len(s) /\ IsWordChar(s[i + 1]))

\* re.search(r"\b(skills?|tools?|technologies?|stack):", s)
list_header_search(s) ==
    \E i \in 0..(Len(s) - 1) :
        /\ WordBoundary(s, i)
        /\ \E w \in {<<"s","k","i","l","l">>, <<"s","k","i","l","l","s">>, <<"t","o","o","l">>, <<"t","o","o","l","s">>,
                      <<"t","e","c","h","n","o","l","o","g","i","e">>, <<"t","e","c","h","n","o","l","o","g","i","e","s">>, <<"s","t","a","c","k">>} :
               StartsWithAt(s, i, w \o <<":">>)

\* _is_list_context without its last line, the search for a list header
is_list_context_without_header(snippet, snippet_lower) ==
    LET stripped == Strip(snippet)
    IN \/ (stripped # <<>> /\ stripped[1] \in LIST_SYMBOLS)
       \/ \E symbol \in LIST_SYMBOLS : symbol \in Range(snippet)

is_list_context(snippet, snippet_lower) ==
    LET stripped == Strip(snippet)
    IN \/ (stripped # <<>> /\ stripped[1] \in LIST_SYMBOLS)
       \/ \E symbol \in LIST_SYMBOLS : symbol \in Range(snippet)
       \/ list_header_search(snippet_lower)

has_positive_context_lower(snippet, snippet_lower) ==
    \/ ContainsAny(snippet_lower, GENERAL_CONTEXT_KEYWORDS)
    \/ is_list_context(snippet, snippet_lower)

\* SkillMatcher.has_positive_context
has_positive_context(snippet) == has_positive_context_lower(snippet, Lower(snippet))

RECURSIVE RunEnd(_, _, _)
\* the end of the run of the character ch of s that starts at offset i
RunEnd(s, i, ch) == IF i < Len(s) /\ s[i + 1] = ch THEN RunEnd(s, i + 1, ch) ELSE i

\* NEGATIVE_CONTEXT_PATTERNS["excel"].search(s).  The pattern is written
\* r"\\bexcel(?:led|s|ing)?\\s+(?:at|in)\\b": in a raw string each \\ is an escaped
\* backslash, so the pattern is a literal backslash and b, excel, an optional
\* suffix, a literal backslash, one or more letters s, at or in, and a literal
\* backslash and b
negative_excel_search(s) ==
    \E i \in 0..Len(s) : \E suffix \in {<<>>, <<"l","e","d">>, <<"s">>, <<"i","n","g">>} :
        LET prefix == <<"\\","b","e","x","c","e","l">> \o suffix \o <<"\\","s">>
            e == RunEnd(s, i + Len(prefix), "s")
        IN /\ StartsWithAt(s, i, prefix)
           /\ \E w \in {<<"a","t">>, <<"i","n">>} : StartsWithAt(s, e, w \o <<"\\","b">>)

\* NEGATIVE_CONTEXT_PATTERNS.get(token) and its search
negative_context(token, snippet_lower) ==
    token = <<"e","x","c","e","l">> /\ negative_excel_search(snippet_lower)

context_is_valid(entry, snippet) ==
    LET snippet_lower == Lower(snippet)
        token == entry.tokens[1]
        strict == {r \in STRICT_CONTEXT_TERMS : r.term = token}
    IN IF ~entry.requires_context THEN TRUE
       ELSE IF strict # {}
            THEN LET strict_config == CHOOSE r \in strict : TRUE
                     has_keyword == ContainsAny(snippet_lower, strict_config.keywords)
                 IN /\ has_keyword \/ (strict_config.allow_list
                                        /\ is_list_context(snippet, snippet_lower))
                    /\ ~negative_context(token, snippet_lower)
            ELSE has_positive_context_lower(snippet, snippet_lower)

(***************************************************************************)
(* SkillMatcher.match                                                      *)
(***************************************************************************)
spans_overlap(first, second) ==
    ~(first.end <= second.start \/ first.start >= second.end)

\* the body of the loop over the candidates of one token, for one entry
scan_entry(raw, txt, toks, idx, entry, excl) ==
    LET length == Len(entry.tokens)
        window == SubSeq(toks, idx, idx + length - 1)
        start == window[1].start
        end == window[length].end
        canonical_lower == Lower(entry.canonical_name)
        snippet == extract_context(txt, start, end, 60)
    IN IF idx - 1 + length > Len(toks) THEN raw
       ELSE IF join([i \in 1..length |-> window[i].group]) # entry.normalized THEN raw
       ELSE IF canonical_lower \in excl \/ entry.normalized \in excl THEN raw
       ELSE IF \E i \in 1..Len(raw) :
                   /\ Lower(raw[i].entry.canonical_name) = canonical_lower
                   /\ raw[i].start = start /\ raw[i].end = end
            THEN raw
       ELSE IF ~context_is_valid(entry, snippet) THEN raw
       ELSE Append(raw, [entry |-> entry, start |-> start, end |-> end,
                         matched_text |-> Slice(txt, start, end), snippet |-> snippet])

RECURSIVE scan_entries(_, _, _, _, _, _)
scan_entries(raw, txt, toks, idx, candidates, excl) ==
    IF candidates = <<>> THEN raw
    ELSE scan_entries(scan_entry(raw, txt, toks, idx, Head(candidates), excl),
                      txt, toks, idx, Tail(candidates), excl)

RECURSIVE scan_tokens(_, _, _, _, _, _)
scan_tokens(raw, txt, toks, idx, c, excl) ==
    IF idx > Len(toks) THEN raw
    ELSE scan_tokens(IF toks[idx].group \in DOMAIN c.index
                     THEN scan_entries(raw, txt, toks, idx, c.index[toks[idx].group], excl)
                     ELSE raw,
                     txt, toks, idx + 1, c, excl)

\* the first loop of match: raw_matches
scan(txt, c, excl) ==
    LET text_lower == Lower(txt)
        spans == finditer(text_lower, 0)
        toks == [i \in 1..Len(spans) |->
                    [start |-> spans[i].start, end |-> spans[i].end,
                     group |-> Slice(text_lower, spans[i].start, spans[i].end)]]
    IN scan_tokens(<<>>, txt, toks, 1, c, excl)

\* the sort of raw_matches without reverse=True: shortest candidates first
sort_key_ascending(a, b, by_start) ==
    IF by_start THEN a.start <= b.start
    ELSE \/ Len(a.entry.tokens) < Len(b.entry.tokens)
         \/ /\ Len(a.entry.tokens) = Len(b.entry.tokens)
            /\ a.end - a.start <= b.end - b.start

\* a is not after b under the sort key: (len(tokens), end - start) descending
\* for raw_matches.sort(..., reverse=True), start ascending for filtered.sort
sort_key_ge(a, b, by_start) ==
    IF by_start THEN a.start <= b.start
    ELSE \/ Len(a.entry.tokens) > Len(b.entry.tokens)
         \/ /\ Len(a.entry.tokens) = Len(b.entry.tokens)
            /\ a.end - a.start >= b.end - b.start

RECURSIVE insert_sorted(_, _, _)
\* m put behind every element that is not after it: list.sort is stable
insert_sorted(sorted, m, by_start) ==
    IF sorted = <<>> THEN <<m>>
    ELSE IF sort_key_ge(Head(sorted), m, by_start)
         THEN <<Head(sorted)>> \o insert_sorted(Tail(sorted), m, by_start)
         ELSE <<m>> \o sorted

RECURSIVE sort_by(_, _, _)
sort_by(done, todo, by_start) ==
    IF todo = <<>> THEN done
    ELSE sort_by(insert_sorted(done, Head(todo), by_start), Tail(todo), by_start)

RECURSIVE keep_non_overlapping(_, _)
\* the loop that fills filtered
keep_non_overlapping(filtered, todo) ==
    IF todo = <<>> THEN filtered
    ELSE keep_non_overlapping(
             IF \E i \in 1..Len(filtered) : spans_overlap(Head(todo), filtered[i])
             THEN filtered ELSE Append(filtered, Head(todo)),
             Tail(todo))

\* the rest of match, from raw_matches to the list returned
resolve_overlaps(raw) ==
    sort_by(<<>>, keep_non_overlapping(<<>>, sort_by(<<>>, raw, FALSE)), TRUE)

match(txt, c, excl) == resolve_overlaps(scan(txt, c, excl))


\* the entries resolve_phrase can return, and none when it returns None: the
\* loop runs over a Python set, whose order the program does not fix, and
\* returns at the first variant that is found and not excluded
resolve_phrase(phrase, c, excl) ==
    LET found == {c.normalized_lookup[join(tokens)] :
                     tokens \in {t \in generate_token_variants(phrase) :
                                    join(t) \in DOMAIN c.normalized_lookup}}
    IN {entry \in found : Lower(entry.canonical_name) \notin excl}

(***************************************************************************)
(* SkillExtractionService: evidence scoring and confidence                 *)
(***************************************************************************)
minimum_confidence == 55

excluded_skills == {<<"r">>, <<"c","o","d","e">>}

structured_label_stopwords ==
    {<<"s","k","i","l","l","s">>, <<"t","e","c","h","n","i","c","a","l"," ","s","k","i","l","l","s">>, <<"p","r","o","g","r","a","m","m","i","n","g"," ","s","k","i","l","l","s">>, <<"s","o","f","t"," ","s","k","i","l","l","s">>,
     <<"p","r","o","g","r","a","m","m","i","n","g"," ","l","a","n","g","u","a","g","e","s">>, <<"l","a","n","g","u","a","g","e","s">>, <<"p","r","o","f","e","s","s","i","o","n","a","l"," ","s","k","i","l","l","s">>, <<"t","o","o","l","s">>,
     <<"t","o","o","l","i","n","g">>, <<"f","r","a","m","e","w","o","r","k","s">>, <<"c","o","m","p","e","t","e","n","c","i","e","s">>, <<"c","e","r","t","i","f","i","c","a","t","i","o","n","s">>, <<"s","u","m","m","a","r","y">>,
     <<"p","r","o","f","e","s","s","i","o","n","a","l"," ","s","u","m","m","a","r","y">>, <<"p","r","o","f","i","l","e">>, <<"e","x","p","e","r","i","e","n","c","e">>, <<"w","o","r","k"," ","e","x","p","e","r","i","e","n","c","e">>,
     <<"p","r","o","j","e","c","t","s">>}

\* re.search(r'[a-z0-9-]+\.(com|io|org|net|dev|app)', context, re.IGNORECASE)
url_search(context) ==
    LET s == Lower(context)
    IN \E i \in 1..(Len(s) - 1) :
          /\ s[i] \in LowerSet \cup DigitSet \cup {"-"}
          /\ s[i + 1] = "."
          /\ \E tld \in {<<"c","o","m">>, <<"i","o">>, <<"o","r","g">>, <<"n","e","t">>, <<"d","e","v">>, <<"a","p","p">>} :
                 StartsWithAt(s, i + 1, tld)

\* re.search(r'[a-z0-9._%+-]+@[a-z0-9.-]+\.[a-z]{2,}', context, re.IGNORECASE)
email_search(context) ==
    LET s == Lower(context)
    IN \E a \in 2..Len(s) :
          /\ s[a] = "@"
          /\ s[a - 1] \in LowerSet \cup DigitSet \cup {".", "_", "%", "+", "-"}
          /\ \E d \in (a + 2)..(Len(s) - 2) :
                 /\ s[d] = "."
                 /\ \A j \in (a + 1)..(d - 1) : s[j] \in LowerSet \cup DigitSet \cup {".", "-"}
                 /\ s[d + 1] \in LowerSet /\ s[d + 2] \in LowerSet

\* _validate_skill_match(text, start, end, skill_name, matched_text=...)
validate_skill_match(txt, start, end, skill_name, matched_text) ==
    LET context == Slice(txt, Max(0, start - 24), Min(Len(txt), end + 24))
        target == Strip(IF matched_text # <<>> THEN matched_text ELSE skill_name)
    IN /\ skill_name # <<>>
       /\ ~(start < 0 \/ end > Len(txt))
       /\ ~url_search(context)
       /\ ~email_search(context)
       /\ target # <<>>
       /\ Len(target) <= 3 =>
              /\ ~(start > 0 /\ IsAlpha(txt[start]))
              /\ ~(end < Len(txt) /\ IsAlpha(txt[end + 1]))

RECURSIVE SkipSpaceBack(_, _)
\* the offset where the whitespace run that ends at offset y begins
SkipSpaceBack(s, y) == IF y > 0 /\ s[y] \in Whitespace THEN SkipSpaceBack(s, y - 1) ELSE y

\* re.search(r'\d+\+?\s*' + word, s), for the words year and yr
counted_search(s, word) ==
    \E y \in 1..Len(s) :
        /\ StartsWithAt(s, y, word)
        /\ LET k == SkipSpaceBack(s, y)
           IN \/ (k > 0 /\ s[k] \in DigitSet)
              \/ (k > 1 /\ s[k] = "+" /\ s[k - 1] \in DigitSet)

RECURSIVE SkipSpace(_, _)
SkipSpace(s, i) == IF i < Len(s) /\ s[i + 1] \in Whitespace THEN SkipSpace(s, i + 1) ELSE i

\* re.search(r'years?\s+of\s+experience', s)
years_of_experience_search(s) ==
    \E y \in 0..Len(s) : \E w \in {<<"y","e","a","r">>, <<"y","e","a","r","s">>} :
        LET a == y + Len(w)
            b == SkipSpace(s, a)
            c == SkipSpace(s, b + 2)
        IN /\ StartsWithAt(s, y, w)
           /\ b > a /\ StartsWithAt(s, b, <<"o","f">>)
           /\ c > b + 2 /\ StartsWithAt(s, c, <<"e","x","p","e","r","i","e","n","c","e">>)

\* any of year_patterns matches
year_pattern_search(s) ==
    \/ counted_search(s, <<"y","e","a","r">>)
    \/ years_of_experience_search(s)
    \/ counted_search(s, <<"y","r">>)

strong_contexts ==
    {<<"e","x","p","e","r","i","e","n","c","e"," ","w","i","t","h">>, <<"e","x","p","e","r","i","e","n","c","e"," ","i","n">>, <<"p","r","o","f","i","c","i","e","n","t"," ","i","n">>, <<"e","x","p","e","r","t"," ","i","n">>, <<"s","k","i","l","l","e","d"," ","i","n">>,
     <<"w","o","r","k","e","d"," ","w","i","t","h">>, <<"d","e","v","e","l","o","p","e","d"," ","u","s","i","n","g">>, <<"b","u","i","l","t"," ","w","i","t","h">>, <<"i","m","p","l","e","m","e","n","t","e","d">>, <<"i","m","p","l","e","m","e","n","t","i","n","g">>,
     <<"s","p","e","c","i","a","l","i","z","e","d"," ","i","n">>, <<"k","n","o","w","l","e","d","g","e"," ","o","f">>, <<"f","a","m","i","l","i","a","r"," ","w","i","t","h">>, <<"s","t","r","o","n","g"," ","k","n","o","w","l","e","d","g","e">>,
     <<"h","a","n","d","s","-","o","n"," ","e","x","p","e","r","i","e","n","c","e">>, <<"e","x","t","e","n","s","i","v","e"," ","e","x","p","e","r","i","e","n","c","e">>, <<"p","r","o","g","r","a","m","m","i","n","g"," ","l","a","n","g","u","a","g","e","s",":">>,
     <<"t","e","c","h","n","o","l","o","g","i","e","s",":">>, <<"s","k","i","l","l","s",":">>, <<"t","e","c","h","n","i","c","a","l"," ","s","k","i","l","l","s",":">>}

achievement_words ==
    {<<"p","r","o","j","e","c","t">>, <<"d","e","v","e","l","o","p","e","d">>, <<"b","u","i","l","t">>, <<"c","r","e","a","t","e","d">>, <<"d","e","s","i","g","n","e","d">>,
     <<"a","r","c","h","i","t","e","c","t","e","d">>, <<"i","m","p","l","e","m","e","n","t","e","d">>, <<"d","e","l","i","v","e","r","e","d">>, <<"l","a","u","n","c","h","e","d">>}

list_indicators == {<<"BULLET">>, <<"MIDDOT">>, <<";">>, <<" ","-"," ">>, <<","," ">>}

weak_contexts == {<<"i","n","c","l","u","d","i","n","g">>, <<"s","u","c","h"," ","a","s">>, <<"l","i","k","e">>, <<"e","t","c">>}

\* the score before the final clamp, in hundredths
raw_score(snippet, skill_name, source, requires_context) ==
    LET snippet_lower == Lower(snippet)
        target_lower == Lower(skill_name)
    IN (IF source = "structured" THEN 85 ELSE 45)
       + (IF source = "resume" /\ has_positive_context(snippet) THEN 20 ELSE 0)
       + (IF year_pattern_search(snippet_lower) /\ Contains(snippet_lower, target_lower)
          THEN 20 ELSE 0)
       + (IF ContainsAny(snippet_lower, strong_contexts) THEN 20 ELSE 0)
       + (IF ContainsAny(snippet_lower, achievement_words) THEN 12 ELSE 0)
       + (IF ContainsAny(snippet, list_indicators) THEN 10 ELSE 0)
       - (IF ContainsAny(snippet_lower, weak_contexts) THEN 5 ELSE 0)
       + (IF requires_context /\ source = "resume" THEN 5 ELSE 0)

\* the value returned without min and max
unclamped(x) == x

\* min(1.0, max(0.0, x)) in hundredths
clamp(x) == Min(100, Max(0, x))

\* _score_evidence(snippet, skill_name, source, skill_entry)
score_evidence(snippet, skill_name, source, skill_entry) ==
    clamp(raw_score(snippet, skill_name, source, skill_entry.requires_context))

RECURSIVE SumScores(_)
SumScores(evidence) ==
    IF evidence = <<>> THEN 0 ELSE Head(evidence).score + SumScores(Tail(evidence))

MaxScore(evidence) ==
    CHOOSE m \in {evidence[i].score : i \in 1..Len(evidence)} :
        \A i \in 1..Len(evidence) : evidence[i].score <= m

\* round(num / den, 0) of Python: to the nearest integer, ties to even
round_half_even(num, den) ==
    LET q == num \div den
        r == num % den
    IN IF 2 * r > den \/ (2 * r = den /\ q % 2 = 1) THEN q + 1 ELSE q

\* the frequency term with the sign of its slope reversed
freq_score_decreasing(n) == Max(0, 40 - (n - 1) * 20)

\* min(1.0, 0.4 + (len(evidence) - 1) * 0.2), in hundredths
freq_score(n) == Min(100, 40 + (n - 1) * 20)

\* the evidence of the external profile is a dict, and e.score of a dict
\* raises AttributeError
confidence_raises(evidence) ==
    evidence # <<>> /\ \E i \in 1..Len(evidence) : "score" \notin DOMAIN evidence[i]

\* _calculate_confidence(evidence) in hundredths, for a list of EvidenceItem.
\* 0.2 * freq + 0.7 * (0.65 * max + 0.35 * sum / n) + 0.1 * min(1, k / 3) is
\* the fraction weighted / (600 * n)
calculate_confidence(evidence) ==
    IF evidence = <<>> THEN 0
    ELSE LET n == Len(evidence)
             k == Cardinality({evidence[i].source : i \in 1..n} \ {""})
             weighted == 120 * n * freq_score(n)
                         + 273 * n * MaxScore(evidence)
                         + 147 * SumScores(evidence)
                         + (IF k >= 3 THEN 6000 * n ELSE 2000 * n * k)
         IN clamp(round_half_even(weighted, 600 * n))

(***************************************************************************)
(* SkillExtractionService: from matches to SkillItems                      *)
(* skills_dict is a sequence of key/value pairs in insertion order; an     *)
(* EvidenceItem with offset None has offset -1.                            *)
(***************************************************************************)
dict_has(d, k) == \E i \in 1..Len(d) : d[i].key = k
dict_get(d, k) == d[CHOOSE i \in 1..Len(d) : d[i].key = k].val

\* _add_or_update_skill with a skill_entry, as both callers give one
add_or_update_skill(skills_dict, full_text, start, end, source, skill_entry, matched_text, snippet_override, validate) ==
    LET canonical_name == Strip(skill_entry.canonical_name)
        skill_key == Lower(canonical_name)
        target_text == Strip(IF matched_text # <<>> THEN matched_text ELSE canonical_name)
        snippet == IF snippet_override # <<>> THEN snippet_override ELSE target_text
        evidence == [source |-> source, snippet |-> snippet,
                     score |-> score_evidence(snippet, canonical_name, source, skill_entry),
                     offset |-> IF validate THEN start ELSE -1]
        old == IF dict_has(skills_dict, skill_key) THEN dict_get(skills_dict, skill_key)
               ELSE [name |-> canonical_name, evidence |-> <<>>, matched_terms |-> {},
                     category |-> skill_entry.category]
    IN IF canonical_name = <<>> THEN skills_dict
       ELSE IF skill_key \in excluded_skills THEN skills_dict
       ELSE IF validate /\ ~validate_skill_match(full_text, start, end, target_text, matched_text)
            THEN skills_dict
       ELSE IF source = "resume" /\ ~context_is_valid(skill_entry, snippet) THEN skills_dict
       ELSE dict_set(skills_dict, skill_key,
                     [old EXCEPT !.evidence =
                                    IF \E i \in 1..Len(@) : @[i].snippet = snippet
                                    THEN @ ELSE Append(@, evidence),
                                 !.matched_terms = @ \cup {target_text}])

RECURSIVE add_matches(_, _, _)
\* the loop of _extract_skills over the matches of the resume text
add_matches(skills_dict, full_text, ms) ==
    IF ms = <<>> THEN skills_dict
    ELSE add_matches(add_or_update_skill(skills_dict, full_text, Head(ms).start, Head(ms).end,
                                         "resume", Head(ms).entry, Head(ms).matched_text,
                                         Head(ms).snippet, TRUE),
                     full_text, Tail(ms))

RECURSIVE dedupe(_, _)
\* the order-preserving removal of duplicates
dedupe(done, todo) ==
    IF todo = <<>> THEN done
    ELSE dedupe(IF Head(todo) \in Range(done) THEN done ELSE Append(done, Head(todo)), Tail(todo))

RECURSIVE iter_skill_strings(_)
RECURSIVE iter_items(_)
iter_items(items) ==
    IF items = <<>> THEN <<>>
    ELSE iter_skill_strings(Head(items)) \o iter_items(Tail(items))

\* _iter_skill_strings(data): data is None, a str, or a list (or the values of
\* a dict) of data
iter_skill_strings(data) ==
    IF data.kind = "str"
    THEN LET value == Strip(data.value)
         IN IF value # <<>> /\ Lower(value) \notin structured_label_stopwords
            THEN <<value>> ELSE <<>>
    ELSE IF data.kind = "list" THEN dedupe(<<>>, iter_items(data.items))
    ELSE <<>>

RECURSIVE add_structured(_, _, _, _, _)
\* the loop of _extract_skills over the structured skills; resolve_phrase is
\* taken at one of the results it can return
add_structured(skills_dict, full_text, strings, c, excl) ==
    IF strings = <<>> THEN skills_dict
    ELSE LET entries == resolve_phrase(Head(strings), c, excl)
         IN add_structured(
                IF entries = {} THEN skills_dict
                ELSE add_or_update_skill(skills_dict, full_text, 0, 0, "structured",
                                         CHOOSE e \in entries : TRUE,
                                         Head(strings), Head(strings), FALSE),
                full_text, Tail(strings), c, excl)

\* a is not after b in skills_list.sort(key=confidence, reverse=True)
RECURSIVE insert_by_confidence(_, _)
insert_by_confidence(sorted, item) ==
    IF sorted = <<>> THEN <<item>>
    ELSE IF Head(sorted).confidence >= item.confidence
         THEN <<Head(sorted)>> \o insert_by_confidence(Tail(sorted), item)
         ELSE <<item>> \o sorted

RECURSIVE sort_by_confidence(_, _)
sort_by_confidence(done, todo) ==
    IF todo = <<>> THEN done
    ELSE sort_by_confidence(insert_by_confidence(done, Head(todo)), Tail(todo))

\* the SkillItem built from one entry of skills_dict; the uuid4 skill_id is the
\* pair of the source and the key, which no two items of one extraction share
skill_item(mappings, origin, skill_key, skill_data, confidence, tags) ==
    LET m == get_mapping(mappings, skill_data.name)
    IN [skill_id |-> <<origin, skill_key>>,
        name |-> IF m # 0 THEN mappings[m].skill_name ELSE skill_data.name,
        category |-> IF m # 0 THEN mappings[m].category ELSE skill_data.category,
        confidence |-> confidence,
        evidence |-> skill_data.evidence,
        mapped_taxonomy_id |-> IF m # 0 THEN mappings[m].esco_id ELSE None,
        manual_status |-> "suggested",
        edited_name |-> <<>>,
        tags |-> tags]

RECURSIVE accepted_items(_, _, _)
\* the loop of _extract_skills over skills_dict, with its threshold
accepted_items(mappings, skills_dict, threshold) ==
    IF skills_dict = <<>> THEN <<>>
    ELSE LET skill_data == Head(skills_dict).val
             confidence == calculate_confidence(skill_data.evidence)
             rest == accepted_items(mappings, Tail(skills_dict), threshold)
         IN IF confidence < threshold THEN rest
            ELSE <<skill_item(mappings, "resume", Head(skills_dict).key, skill_data,
                              confidence, skill_data.matched_terms)>> \o rest

\* _extract_skills without the test confidence < self.minimum_confidence
extract_skills_without_threshold(resume_text, structured, mappings, c, excl) ==
    LET from_text == add_matches(<<>>, resume_text, match(resume_text, c, excl))
        skills_dict == add_structured(from_text, resume_text,
                                      iter_skill_strings(structured), c, excl)
    IN sort_by_confidence(<<>>, accepted_items(mappings, skills_dict, 0))

\* _extract_skills(resume_text, processed_data), processed_data["skills"] given
extract_skills(resume_text, structured, mappings, c, excl) ==
    LET from_text == add_matches(<<>>, resume_text, match(resume_text, c, excl))
        skills_dict == add_structured(from_text, resume_text,
                                      iter_skill_strings(structured), c, excl)
    IN sort_by_confidence(<<>>, accepted_items(mappings, skills_dict, minimum_confidence))

(***************************************************************************)
(* The external profile                                                    *)
(* github_data is [present, profile, languages, repositories]: present is  *)
(* the truth value of the dict, profile whether it has a "profile".        *)
(***************************************************************************)
tech_keywords ==
    {<<"r","e","a","c","t">>, <<"v","u","e">>, <<"a","n","g","u","l","a","r">>, <<"n","o","d","e">>, <<"d","j","a","n","g","o">>, <<"f","l","a","s","k">>,
     <<"d","o","c","k","e","r">>, <<"k","u","b","e","r","n","e","t","e","s">>, <<"a","w","s">>, <<"a","z","u","r","e">>, <<"g","c","p">>, <<"t","e","n","s","o","r","f","l","o","w">>,
     <<"p","y","t","o","r","c","h">>, <<"m","a","c","h","i","n","e"," ","l","e","a","r","n","i","n","g">>, <<"a","i">>, <<"b","l","o","c","k","c","h","a","i","n">>, <<"w","e","b","3">>}

RECURSIVE non_forks(_)
non_forks(repos) ==
    IF repos = <<>> THEN <<>>
    ELSE (IF Head(repos).is_fork THEN <<>> ELSE <<Head(repos)>>) \o non_forks(Tail(repos))

\* GitHubService.extract_skills_from_github: the fields _extract_github_skills
\* reads; found is FALSE for the empty dict
extract_skills_from_github(github_data) ==
    IF ~github_data.present \/ ~github_data.profile
    THEN [found |-> FALSE, programming_languages |-> <<>>, technologies |-> <<>>,
          project_highlights |-> <<>>]
    ELSE LET repos == github_data.repositories
             technologies ==
                 UNION {Range(repos[i].topics) : i \in 1..Len(repos)}
                 \cup {kw \in tech_keywords :
                          \E i \in 1..Len(repos) : Contains(Lower(repos[i].description), kw)}
         IN [found |-> TRUE,
             programming_languages |-> SubSeq(github_data.languages, 1,
                                              Min(10, Len(github_data.languages))),
             technologies |-> SetToSeq(technologies),
             project_highlights |-> non_forks(SubSeq(repos, 1, Min(10, Len(repos))))]

RECURSIVE add_github_evidence(_, _, _)
\* one of the three loops of _extract_github_skills: names is the list of the
\* skill names met, kind the loop; the evidence is a dict without a score
add_github_evidence(skills_dict, names, kind) ==
    IF names = <<>> THEN skills_dict
    ELSE LET skill_key == Lower(Head(names))
             evidence == [source |-> "github", text |-> kind]
             old == IF dict_has(skills_dict, skill_key) THEN dict_get(skills_dict, skill_key)
                    ELSE [name |-> Head(names), evidence |-> <<>>, category |-> "technical"]
         IN add_github_evidence(
                dict_set(skills_dict, skill_key, [old EXCEPT !.evidence = Append(@, evidence)]),
                Tail(names), kind)

RECURSIVE project_languages(_)
project_languages(projects) ==
    IF projects = <<>> THEN <<>>
    ELSE (IF Head(projects).language # <<>> THEN <<Head(projects).language>> ELSE <<>>)
         \o project_languages(Tail(projects))

\* skills_dict of _extract_github_skills before the SkillItems are built
github_skills_dict(github_data) ==
    LET extracted == extract_skills_from_github(github_data)
        languages == add_github_evidence(
                         <<>>, [i \in 1..Len(extracted.programming_languages) |->
                                   extracted.programming_languages[i].name], "language")
        technologies == add_github_evidence(languages, extracted.technologies, "technology")
    IN add_github_evidence(
           technologies,
           project_languages(SubSeq(extracted.project_highlights, 1,
                                    Min(5, Len(extracted.project_highlights)))),
           "project")

\* _extract_github_skills: raised when it ends in an exception, else the list
\* returned.  _calculate_confidence raises for the first skill of skills_dict,
\* whose evidence is a list of dicts, so no SkillItem is ever built
extract_github_skills(github_data) ==
    LET skills_dict == github_skills_dict(github_data)
    IN IF \E i \in 1..Len(skills_dict) : confidence_raises(skills_dict[i].val.evidence)
       THEN [raised |-> TRUE, skills |-> <<>>]
       ELSE [raised |-> FALSE, skills |-> <<>>]

RECURSIVE merge_into(_, _, _)
\* the two loops of _merge_skills: first is TRUE for the loop over the resume
\* skills, which stores each skill under its key
merge_into(skills_dict, skills, first) ==
    IF skills = <<>> THEN skills_dict
    ELSE LET skill == Head(skills)
             key == Lower(skill.name)
             existing_skill == dict_get(skills_dict, key)
         IN merge_into(
                IF first \/ ~dict_has(skills_dict, key) THEN dict_set(skills_dict, key, skill)
                ELSE dict_set(skills_dict, key,
                         [existing_skill EXCEPT
                             !.confidence = Max(@, skill.confidence),
                             !.evidence = @ \o skill.evidence,
                             !.mapped_taxonomy_id =
                                 IF @ # None THEN @ ELSE skill.mapped_taxonomy_id,
                             !.edited_name = <<>>,
                             !.tags = @ \cup skill.tags]),
                Tail(skills), first)

\* _merge_skills with skills_dict[key] = github_skill in both branches
merge_skills_last_wins(resume_skills, github_skills) ==
    LET skills_dict == merge_into(merge_into(<<>>, resume_skills, TRUE), github_skills, TRUE)
    IN [i \in 1..Len(skills_dict) |-> skills_dict[i].val]

\* _merge_skills(resume_skills, github_skills)
merge_skills(resume_skills, github_skills) ==
    LET skills_dict == merge_into(merge_into(<<>>, resume_skills, TRUE), github_skills, FALSE)
    IN [i \in 1..Len(skills_dict) |-> skills_dict[i].val]

\* the skills create_skill_profile stores for a resume without a profile
profile_skills(resume_text, structured, github_data, mappings, c, excl) ==
    LET skills == extract_skills(resume_text, structured, mappings, c, excl)
        github == extract_github_skills(github_data)
    IN IF github_data.present /\ ~github.raised
       THEN merge_skills(skills, github.skills)
       ELSE skills

(***************************************************************************)
(* Inputs                                                                  *)
(***************************************************************************)
Mapping(name, aliases, esco_id, category) ==
    [skill_name |-> name, aliases |-> aliases, esco_id |-> esco_id, category |-> category]

\* the taxonomy of the model: unambiguous skills, the office terms that need
\* context, phrases of one to three tokens that overlap in a text, a skill
\* whose name is an alias of an earlier one, names with separators, and a
\* skill with an alias that the service excludes, and a skill whose alias
\* is the name of an earlier one
ModelTaxonomy ==
    << Mapping(<<"P","y","t","h","o","n">>, <<>>, "S1", "technical"),
       Mapping(<<"D","o","c","k","e","r">>, <<>>, "S2", "technical"),
       Mapping(<<"E","x","c","e","l">>, <<>>, "S3", "technical"),
       Mapping(<<"W","o","r","d">>, <<>>, None, "technical"),
       Mapping(<<"M","i","c","r","o","s","o","f","t"," ","S","Q","L"," ","S","e","r","v","e","r">>, <<>>, "S5", "technical"),
       Mapping(<<"S","e","r","v","e","r"," ","A","d","m","i","n","i","s","t","r","a","t","i","o","n">>, <<>>, None, "domain"),
       Mapping(<<"A","d","m","i","n","i","s","t","r","a","t","i","o","n">>, <<>>, None, "soft"),
       Mapping(<<"S","Q","L">>, <<>>, "S8", "technical"),
       Mapping(<<"J","a","v","a","S","c","r","i","p","t">>, <<<<"J","S">>>>, "S9", "technical"),
       Mapping(<<"J","S">>, <<<<"J","S","c","r","i","p","t">>>>, "S10", "technical"),
       Mapping(<<"C","I","/","C","D">>, <<<<"C","I","-","C","D">>>>, None, "technical"),
       Mapping(<<"N","o","d","e",".","j","s">>, <<>>, None, "technical"),
       Mapping(<<"T","e","a","m","s">>, <<>>, None, "technical"),
       Mapping(<<"R"," ","P","r","o","g","r","a","m","m","i","n","g">>, <<<<"R">>>>, None, "technical"),
       Mapping(<<"K","u","b","e">>, <<<<"K","u","b","e","c","t","l">>>>, "S11", "technical"),
       Mapping(<<"K","u","b","e","r","n","e","t","e","s">>, <<<<"K","u","b","e">>>>, "S12", "technical") >>

TextC1 == <<"5","+"," ","y","e","a","r","s"," ","o","f"," ","e","x","p","e","r","i","e","n","c","e"," ","w","i","t","h"," ","P","y","t","h","o","n"," ","a","n","d"," ","s","t","r","o","n","g"," ","k","n","o","w","l","e","d","g","e"," ","o","f"," ","D","o","c","k","e","r",".">>
TextC8 == <<"S","k","i","l","l","s",":"," ","E","x","c","e","l",","," ","W","o","r","d",","," ","P","o","w","e","r","P","o","i","n","t">>
TextC7 == <<"I"," ","e","x","c","e","l","l","e","d"," ","a","t"," ","s","p","o","r","t","s">>

\* the lines texts are made of
Fragments ==
    << TextC1, TextC8, TextC7,
       <<"M","i","c","r","o","s","o","f","t"," ","E","x","c","e","l"," ","i","n"," ","f","i","n","a","n","c","e">>,
       <<"e","x","p","e","r","i","e","n","c","e",":"," ","h","t","t","p","s",":","/","/","e","x","a","m","p","l","e",".","e","d","u","/","p","y","t","h","o","n">>,
       <<"m","a","i","l"," ","p","y","t","h","o","n","@","g","m","a","i","l",".","c","o","m">>,
       <<"M","i","c","r","o","s","o","f","t"," ","S","Q","L"," ","S","e","r","v","e","r"," ","A","d","m","i","n","i","s","t","r","a","t","i","o","n">>,
       <<"b","u","i","l","t"," ","w","i","t","h"," ","J","S"," ","a","n","d"," ","N","o","d","e",".","j","s">>,
       <<"-"," ","D","o","c","k","e","r",","," ","P","y","t","h","o","n">>,
       <<"s","e","e"," ","g","i","t","h","u","b",".","c","o","m","/","d","o","c","k","e","r">>,
       <<"-"," ","K","u","b","e","c","t","l",","," ","K","u","b","e","r","n","e","t","e","s">>,
       <<"m","a","n","a","g","e","d"," ","t","w","o"," ","t","e","a","m","s">> >>

\* the number of lines of a text
MaxFragments == 2

RECURSIVE TextsOf(_, _)
\* the texts of n lines, taken in order from the lines lo and after
TextsOf(n, lo) ==
    IF n = 1 THEN {Fragments[i] : i \in lo..Len(Fragments)}
    ELSE UNION {{Fragments[i] \o <<"\n">> \o t : t \in TextsOf(n - 1, i + 1)}
                : i \in lo..Len(Fragments)}

Texts == UNION {TextsOf(n, 1) : n \in 1..MaxFragments}

Str(value) == [kind |-> "str", value |-> value]
List(items) == [kind |-> "list", items |-> items]
NoData == [kind |-> "none"]

\* values of processed_data["skills"]
StructuredInputs ==
    {NoData,
     List(<<Str(<<" ","d","o","c","k","e","r"," ">>), Str(<<"T","o","o","l","s">>), List(<<Str(<<"P","Y","T","H","O","N">>), Str(<<"d","o","c","k","e","r">>)>>)>>),
     List(<<Str(<<"c","i"," ","c","d">>), Str(<<"W","o","r","d">>)>>)}

\* the phrases resolve_phrase is called with: every canonical name, and more
Phrases ==
    {ModelTaxonomy[i].skill_name : i \in 1..Len(ModelTaxonomy)}
    \cup {<<"p","y","t","h","o","n">>, <<"j","s">>, <<"C","I","-","C","D">>, <<"n","o","d","e"," ","j","s">>, <<"K","o","t","l","i","n">>, <<"j","s","c","r","i","p","t">>, <<"R">>}

(***************************************************************************)
(* The matching engine: match, resolve_phrase and _extract_skills called   *)
(* on the shared matcher of a SkillExtractionService                       *)
(***************************************************************************)
MatcherInit ==
    /\ taxonomy = ModelTaxonomy
    /\ cache = build_index(ModelTaxonomy)
    /\ excluded = {Lower(x) : x \in excluded_skills}

EngineIdle ==
    /\ text = <<>> /\ arg_structured = NoData
    /\ raw_matches = <<>> /\ matches = <<>>
    /\ arg_phrase = <<>> /\ resolved = {}
    /\ skill_list = <<>>

ScoreIdle ==
    /\ scored = [snippet |-> <<>>, skill_name |-> <<>>, source |-> "resume",
                 requires_context |-> FALSE, score |-> 0]
    /\ ev_list = <<>> /\ ev_confidence = 0

MergeIdle == merge_resume = <<>> /\ merge_github = <<>> /\ merged = <<>>

\* the last call of the service: its arguments and what it returned
NoCall == [resume_id |-> None, github_data |-> None, created |-> FALSE, profile_id |-> 0]

ServiceIdle == profiles = <<>> /\ last = NoCall

\* no update_skill_action call yet
NoRequest == [profile_id |-> 0, skill_name |-> <<>>, action |-> None, edited_name |-> <<>>, edited_category |-> ""]

NoResponse == [request |-> NoRequest, success |-> FALSE, message |-> <<>>, updated_skill |-> None]

LifecycleIdle == audit = <<>> /\ response = NoResponse /\ succeeded = 0

\* the coroutines that run update_skill_action at the same time
Coroutines == {"a", "b"}

NotCalled == [at |-> "start", request |-> NoRequest, row |-> 0, skill_index |-> 0, skills |-> <<>>, previous_state |-> None, success |-> FALSE]

\* taxonomy_map.json: whether open() finds it, whether json.load parses it,
\* and the records of the list it holds
TaxonomyFile(found, parsed, records) == [found |-> found, parsed |-> parsed, records |-> records]

\* the list mappings of _load_taxonomy: empty when open() or json.load raised
read_taxonomy(file) == IF file.found /\ file.parsed THEN file.records ELSE <<>>

\* the threads that construct a SkillMatcher
Threads == {"t1", "t2"}

NotStarted == [at |-> "start", index_id |-> 0]

NoCaller == [instance |-> TRUE, at |-> "idle", excluded |-> {}, text |-> <<>>, matches |-> <<>>]

\* the process once a SkillExtractionService exists
ProcessIdle ==
    /\ taxonomy_file = TaxonomyFile(TRUE, TRUE, ModelTaxonomy)
    /\ built = 1 /\ cache_id = 1
    /\ threads = [q \in Threads |-> NotStarted]
    /\ shared = NoCaller

\* no match_job call yet
NoJob == [profile_id |-> 0, top_k |-> 0, job_skills |-> <<>>, similarity |-> <<>>, failed |-> {}, found |-> FALSE, match_score |-> 0, matched_skills |-> <<>>, missing_skills |-> <<>>]

OtherIdle == LifecycleIdle /\ calls = [q \in Coroutines |-> NotCalled] /\ ProcessIdle /\ job = NoJob

Init ==
    /\ pc = "idle"
    /\ MatcherInit /\ EngineIdle /\ ScoreIdle /\ MergeIdle /\ ServiceIdle /\ OtherIdle

\* SkillMatcher.match(text)
Match ==
    \E t \in Texts :
        /\ pc = "idle"
        /\ pc' = "match"
        /\ text' = t
        /\ raw_matches' = scan(t, cache, excluded)
        /\ matches' = resolve_overlaps(raw_matches')
        /\ UNCHANGED <<arg_structured, arg_phrase, resolved, skill_list>>
        /\ UNCHANGED <<matcherVars, otherVars, scoreVars, mergeVars, serviceVars>>

\* SkillMatcher.resolve_phrase(phrase)
ResolvePhrase ==
    \E p \in Phrases :
        LET entries == resolve_phrase(p, cache, excluded)
        IN /\ pc = "idle"
           /\ pc' = "resolve_phrase"
           /\ arg_phrase' = p
           /\ \/ entries = {} /\ resolved' = {}
              \/ \E e \in entries : resolved' = {e}
           /\ UNCHANGED <<text, arg_structured, raw_matches, matches, skill_list>>
           /\ UNCHANGED <<matcherVars, otherVars, scoreVars, mergeVars, serviceVars>>

\* SkillExtractionService._extract_skills(resume_text, processed_data)
ExtractSkills ==
    \E t \in Texts, sd \in StructuredInputs :
        /\ pc = "idle"
        /\ pc' = "extract_skills"
        /\ text' = t
        /\ arg_structured' = sd
        /\ raw_matches' = scan(t, cache, excluded)
        /\ matches' = resolve_overlaps(raw_matches')
        /\ skill_list' = extract_skills(t, sd, taxonomy, cache, excluded)
        /\ UNCHANGED <<arg_phrase, resolved>>
        /\ UNCHANGED <<matcherVars, otherVars, scoreVars, mergeVars, serviceVars>>

EngineNext == Match \/ ResolvePhrase \/ ExtractSkills

SpecEngine == Init /\ [][EngineNext]_vars

(***************************************************************************)
(* Scoring: _score_evidence and _calculate_confidence called on their own  *)
(***************************************************************************)
ScoreNames == {<<"P","y","t","h","o","n">>, <<"E","x","c","e","l">>}

Sources == {"resume", "structured", "github"}

\* _score_evidence(snippet, skill_name, source, skill_entry)
ScoreEvidence ==
    \E t \in Texts, name \in ScoreNames, source \in Sources, rc \in BOOLEAN :
        /\ pc = "idle"
        /\ pc' = "score_evidence"
        /\ scored' = [snippet |-> t, skill_name |-> name, source |-> source,
                      requires_context |-> rc,
                      score |-> score_evidence(t, name, source, [requires_context |-> rc])]
        /\ UNCHANGED <<ev_list, ev_confidence>>
        /\ UNCHANGED <<matcherVars, otherVars, engineVars, mergeVars, serviceVars>>

\* the scores of the evidence items of the lists
ScoreValues == {0, 45, 100}

\* the number of items of an evidence list
MaxEvidence == 3

Evidence(source, score) == [source |-> source, snippet |-> <<>>, score |-> score, offset |-> -1]

\* _calculate_confidence([])
CalculateConfidenceEmpty ==
    /\ pc = "idle"
    /\ pc' = "calculate_confidence"
    /\ ev_list' = <<>>
    /\ ev_confidence' = calculate_confidence(ev_list')
    /\ UNCHANGED <<scored, matcherVars, otherVars, engineVars, mergeVars, serviceVars>>

\* _calculate_confidence of the list of the call before and one more item
CalculateConfidenceLonger ==
    \E source \in Sources \cup {""}, score \in ScoreValues :
        /\ pc = "calculate_confidence"
        /\ Len(ev_list) < MaxEvidence
        /\ ev_list' = Append(ev_list, Evidence(source, score))
        /\ ev_confidence' = calculate_confidence(ev_list')
        /\ UNCHANGED <<pc, scored, matcherVars, otherVars, engineVars, mergeVars, serviceVars>>

\* _calculate_confidence of the list of the call before with the score of one
\* item raised
CalculateConfidenceRaised ==
    \E i \in 1..Len(ev_list), score \in ScoreValues :
        /\ pc = "calculate_confidence"
        /\ score > ev_list[i].score
        /\ ev_list' = [ev_list EXCEPT ![i].score = score]
        /\ ev_confidence' = calculate_confidence(ev_list')
        /\ UNCHANGED <<pc, scored, matcherVars, otherVars, engineVars, mergeVars, serviceVars>>

ScoreNext ==
    \/ ScoreEvidence
    \/ CalculateConfidenceEmpty
    \/ CalculateConfidenceLonger
    \/ CalculateConfidenceRaised

SpecScore == Init /\ [][ScoreNext]_vars

(***************************************************************************)
(* _merge_skills called on its own                                         *)
(***************************************************************************)
Item(name, confidence, source, score, mapped) ==
    [skill_id |-> <<source, Lower(name)>>, name |-> name, category |-> "technical",
     confidence |-> confidence, evidence |-> <<Evidence(source, score)>>,
     mapped_taxonomy_id |-> mapped, manual_status |-> "suggested",
     edited_name |-> <<>>, tags |-> {name}]

\* a SkillItem as the loops that build SkillItems leave it: its confidence is
\* _calculate_confidence of its evidence
Aggregated(item) == [item EXCEPT !.confidence = calculate_confidence(item.evidence)]

ResumeItems ==
    {Item(<<"P","y","t","h","o","n">>, 60, "resume", 65, "S1"), Item(<<"p","y","t","h","o","n">>, 90, "structured", 85, None),
     Item(<<"D","o","c","k","e","r">>, 71, "resume", 85, None),
     Aggregated(Item(<<"G","o">>, 0, "resume", 85, "S4"))}

GithubItems ==
    {Item(<<"P","y","t","h","o","n">>, 80, "github", 90, None), Item(<<"P","Y","T","H","O","N">>, 30, "github", 20, "S1"),
     Item(<<"D","o","c","k","e","r">>, 40, "github", 45, "S2"), Item(<<"G","o">>, 50, "github", 70, None),
     Aggregated([Item(<<"G","o">>, 0, "github", 70, "S7") EXCEPT !.category = "domain"])}

\* the number of skills of each list that is merged
MaxMerge == 2

RECURSIVE ListsOf(_, _)
\* the lists of n items of a set
ListsOf(items, n) ==
    IF n = 0 THEN {<<>>}
    ELSE {Append(l, x) : l \in ListsOf(items, n - 1), x \in items}

ListsUpTo(items, n) == UNION {ListsOf(items, k) : k \in 0..n}

\* _merge_skills(resume_skills, github_skills)
MergeSkills ==
    \E r \in ListsUpTo(ResumeItems, MaxMerge), g \in ListsUpTo(GithubItems, MaxMerge) :
        /\ pc = "idle"
        /\ pc' = "merge_skills"
        /\ merge_resume' = r
        /\ merge_github' = g
        /\ merged' = merge_skills(r, g)
        /\ UNCHANGED <<matcherVars, otherVars, engineVars, scoreVars, serviceVars>>

SpecMerge == Init /\ [][MergeSkills]_vars

(***************************************************************************)
(* The service: create_skill_profile on the table of skill profiles        *)
(***************************************************************************)
ResumeIds == {"r1", "r2"}

Repo(language, topics, description, is_fork) ==
    [language |-> language, topics |-> topics, description |-> description,
     is_fork |-> is_fork]

GithubData(present, profile, languages, repositories) ==
    [present |-> present, profile |-> profile,
     languages |-> [i \in 1..Len(languages) |-> [name |-> languages[i]]],
     repositories |-> repositories]

\* values of github_data: None, a profile without code, and a profile with
\* languages and a repository
GithubInputs ==
    {GithubData(FALSE, FALSE, <<>>, <<>>),
     GithubData(TRUE, TRUE, <<>>, <<>>),
     GithubData(TRUE, TRUE, <<<<"P","y","t","h","o","n">>, <<"G","o">>>>,
                <<Repo(<<"G","o">>, <<<<"d","o","c","k","e","r">>>>, <<"A","P","I"," ","b","u","i","l","t"," ","w","i","t","h"," ","F","l","a","s","k">>, FALSE)>>)}

\* the resume texts of the profiles
ProfileTexts ==
    {TextC1, <<"M","i","c","r","o","s","o","f","t"," ","E","x","c","e","l"," ","i","n"," ","f","i","n","a","n","c","e">>,
     <<"e","x","p","e","r","i","e","n","c","e",":"," ","h","t","t","p","s",":","/","/","e","x","a","m","p","l","e",".","e","d","u","/","p","y","t","h","o","n">>, <<"-"," ","D","o","c","k","e","r",","," ","P","y","t","h","o","n">>}

privacy_settings == [share_github |-> TRUE, share_linkedin |-> TRUE, mask_pii |-> TRUE]

\* a select that finds no row
existing_never(rows, resume_id) == 0

\* select(SkillProfile).where(resume_id == ...).scalar_one_or_none(): the
\* position of the row in the table, 0 for None
existing(rows, resume_id) ==
    IF \E i \in 1..Len(rows) : rows[i].resume_id = resume_id
    THEN CHOOSE i \in 1..Len(rows) : rows[i].resume_id = resume_id
    ELSE 0

\* create_skill_profile(resume_id, resume_text, processed_data, github_data);
\* the profile_id, a uuid4, is the position of the profile in the table, and
\* the text and the structured data are read only when no profile exists
CreateSkillProfile ==
    \E rid \in ResumeIds, gh \in GithubInputs :
        IF existing(profiles, rid) # 0
        THEN LET existing_profile == profiles[existing(profiles, rid)]
             IN /\ last' = [resume_id |-> rid, github_data |-> gh, created |-> FALSE,
                            profile_id |-> existing_profile.profile_id]
                /\ UNCHANGED <<pc, profiles, matcherVars, otherVars, engineVars, scoreVars, mergeVars>>
        ELSE \E t \in ProfileTexts, sd \in StructuredInputs :
                LET profile_id == Len(profiles) + 1
                    profile == [profile_id |-> profile_id, resume_id |-> rid,
                                skills |-> profile_skills(t, sd, gh, taxonomy, cache, excluded),
                                privacy_settings |-> privacy_settings]
                IN /\ profiles' = Append(profiles, profile)
                   /\ last' = [resume_id |-> rid, github_data |-> gh, created |-> TRUE,
                               profile_id |-> profile_id]
                   /\ UNCHANGED <<pc, matcherVars, otherVars, engineVars, scoreVars, mergeVars>>

Next == CreateSkillProfile

Spec == Init /\ [][Next]_vars

(***************************************************************************)
(* The skill lifecycle: update_skill_action on the stored profiles         *)
(* A request is [profile_id, skill_name, action, edited_name,              *)
(* edited_category]; an edited_name of <<>> and an edited_category of ""    *)
(* are the values the source finds false (None or the empty string).       *)
(***************************************************************************)
\* select(SkillProfile).where(profile_id == ...).scalar_one_or_none(): the
\* position of the row in the table, 0 for None
find_profile(rows, profile_id) ==
    IF \E i \in 1..Len(rows) : rows[i].profile_id = profile_id
    THEN CHOOSE i \in 1..Len(rows) : rows[i].profile_id = profile_id
    ELSE 0

\* the loop that finds the skill: the first one whose lowercase name is the
\* lowercase requested name, 0 for skill_index None
find_skill(skills, skill_name) ==
    LET found == {i \in 1..Len(skills) : Lower(skills[i].name) = Lower(skill_name)}
    IN IF found = {} THEN 0 ELSE CHOOSE i \in found : \A j \in found : i <= j

\* apply_action with an accept that also raises the confidence to 1.0
apply_action_confirming(skill, request) ==
    IF request.action = "accept"
    THEN [skill EXCEPT !.manual_status = "accepted", !.confidence = 100]
    ELSE IF request.action = "reject" THEN [skill EXCEPT !.manual_status = "rejected"]
    ELSE [skill EXCEPT !.manual_status = "edited",
                       !.edited_name = IF request.edited_name # <<>> THEN request.edited_name ELSE @,
                       !.category = IF request.edited_category # "" THEN request.edited_category ELSE @]

\* apply_action of a machine with one transition per skill: a skill that has
\* left suggested keeps its status
apply_action_from_suggested(skill, request) ==
    IF skill.manual_status # "suggested" THEN skill
    ELSE IF request.action = "accept" THEN [skill EXCEPT !.manual_status = "accepted"]
    ELSE IF request.action = "reject" THEN [skill EXCEPT !.manual_status = "rejected"]
    ELSE [skill EXCEPT !.manual_status = "edited",
                       !.edited_name = IF request.edited_name # <<>> THEN request.edited_name ELSE @,
                       !.category = IF request.edited_category # "" THEN request.edited_category ELSE @]

\* apply_action with an edit that renames the skill itself
apply_action_renaming(skill, request) ==
    IF request.action = "accept" THEN [skill EXCEPT !.manual_status = "accepted"]
    ELSE IF request.action = "reject" THEN [skill EXCEPT !.manual_status = "rejected"]
    ELSE [skill EXCEPT !.manual_status = "edited",
                       !.name = IF request.edited_name # <<>> THEN request.edited_name ELSE @,
                       !.category = IF request.edited_category # "" THEN request.edited_category ELSE @]

\* the branches of update_skill_action on request.action
apply_action(skill, request) ==
    IF request.action = "accept" THEN [skill EXCEPT !.manual_status = "accepted"]
    ELSE IF request.action = "reject" THEN [skill EXCEPT !.manual_status = "rejected"]
    ELSE [skill EXCEPT !.manual_status = "edited",
                       !.edited_name = IF request.edited_name # <<>> THEN request.edited_name ELSE @,
                       !.category = IF request.edited_category # "" THEN request.edited_category ELSE @]

action_message(request) ==
    <<"S","k","i","l","l"," ","'">> \o request.skill_name \o
        (IF request.action = "accept" THEN <<"'"," ","a","c","c","e","p","t","e","d">>
         ELSE IF request.action = "reject" THEN <<"'"," ","r","e","j","e","c","t","e","d">> ELSE <<"'"," ","e","d","i","t","e","d">>)

\* an audit row whose previous_value is taken after the transition, as it is
\* when the snapshot is no copy
audit_log_without_copy(request, previous_state, new_value) ==
    [profile_id |-> request.profile_id, skill_name |-> request.skill_name,
     action |-> request.action, previous_value |-> new_value, new_value |-> new_value]

\* the row of skill_audit_logs update_skill_action adds
audit_log(request, previous_state, new_value) ==
    [profile_id |-> request.profile_id, skill_name |-> request.skill_name,
     action |-> request.action, previous_value |-> previous_state, new_value |-> new_value]

\* an update_skill_action that finds nothing and still writes an audit row
update_skill_action_always_audited(rows, log, request) ==
    [profiles |-> rows,
     audit |-> Append(log, audit_log(request, None, None)),
     response |-> [request |-> request, success |-> FALSE,
                   message |-> <<"P","r","o","f","i","l","e"," ","n","o","t"," ","f","o","u","n","d">>, updated_skill |-> None]]

\* update_skill_action(request) on the tables rows and log: the tables after
\* the call and the tuple returned
update_skill_action(rows, log, request) ==
    LET p == find_profile(rows, request.profile_id)
        skills == rows[p].skills
        skill_index == find_skill(skills, request.skill_name)
        previous_state == skills[skill_index]
        new_value == apply_action(previous_state, request)
    IN IF p = 0
       THEN [profiles |-> rows, audit |-> log,
             response |-> [request |-> request, success |-> FALSE,
                           message |-> <<"P","r","o","f","i","l","e"," ","n","o","t"," ","f","o","u","n","d">>, updated_skill |-> None]]
       ELSE IF skill_index = 0
       THEN [profiles |-> rows, audit |-> log,
             response |-> [request |-> request, success |-> FALSE,
                           message |-> <<"S","k","i","l","l"," ","'">> \o request.skill_name \o <<"'"," ","n","o","t"," ","f","o","u","n","d"," ","i","n"," ","p","r","o","f","i","l","e">>,
                           updated_skill |-> None]]
       ELSE [profiles |-> [rows EXCEPT ![p].skills[skill_index] = new_value],
             audit |-> Append(log, audit_log(request, previous_state, new_value)),
             response |-> [request |-> request, success |-> TRUE,
                           message |-> action_message(request), updated_skill |-> new_value]]

NoGithub == GithubData(FALSE, FALSE, <<>>, <<>>)

\* the table after create_skill_profile("r1", "- Docker, Python") and
\* create_skill_profile("r2", TextC1)
StoredProfiles ==
    <<[profile_id |-> 1, resume_id |-> "r1",
       skills |-> profile_skills(<<"-"," ","D","o","c","k","e","r",","," ","P","y","t","h","o","n">>, NoData, NoGithub, ModelTaxonomy,
                                 build_index(ModelTaxonomy), {Lower(x) : x \in excluded_skills}),
       privacy_settings |-> privacy_settings],
      [profile_id |-> 2, resume_id |-> "r2",
       skills |-> profile_skills(TextC1, NoData, NoGithub, ModelTaxonomy,
                                 build_index(ModelTaxonomy), {Lower(x) : x \in excluded_skills}),
       privacy_settings |-> privacy_settings]>>

\* the requests: the profile ids of the table and one that is in no row; the
\* names of stored skills in another case and one no profile holds; an edit
\* with and without each override, an accept that carries overrides
Requests ==
    {r \in [profile_id : {1, 2, 3}, skill_name : {<<"p","y","t","h","o","n">>, <<"D","O","C","K","E","R">>, <<"G","o">>},
            action : {"accept", "reject", "edit"}, edited_name : {<<>>, <<"P","y">>},
            edited_category : {"", "soft"}] :
        /\ r.action = "accept" => r.edited_name # <<>> /\ r.edited_category # ""
        /\ r.action = "reject" => r.edited_name = <<>> /\ r.edited_category = ""}

\* the number of successful transitions of a run
MaxTransitions == 2

LifecycleInit ==
    /\ pc = "idle"
    /\ MatcherInit /\ EngineIdle /\ ScoreIdle /\ MergeIdle
    /\ profiles = StoredProfiles /\ last = NoCall
    /\ OtherIdle

\* SkillExtractionService.update_skill_action(request)
UpdateSkillAction ==
    \E request \in Requests :
        LET after == update_skill_action(profiles, audit, request)
        IN /\ succeeded < MaxTransitions
           /\ profiles' = after.profiles
           /\ audit' = after.audit
           /\ response' = after.response
           /\ succeeded' = IF after.response.success THEN succeeded + 1 ELSE succeeded
           /\ UNCHANGED <<pc, last, calls, processVars, job, matcherVars, engineVars, scoreVars, mergeVars>>

SpecLifecycle == LifecycleInit /\ [][UpdateSkillAction]_vars

(***************************************************************************)
(* Overlapping update_skill_action calls.  A coroutine gives up control at  *)
(* each await: the select returns the row as it is then, the coroutine      *)
(* changes its own copy of the list up to the next await, and the update    *)
(* statement, the audit row and the commit are written later, each request  *)
(* in its own session.                                                      *)
(***************************************************************************)
\* the requests of the overlapping calls: transitions of the two skills of
\* profile 1, a skill it does not hold, and a profile id in no row
RaceRequests ==
    {r \in Requests : /\ r.action \in {"accept", "reject"}
                      /\ r.profile_id = 3 => r.skill_name = <<"G","o">>}

\* update_skill_action from its start to the await of the update statement
Select(q) ==
    \E request \in RaceRequests :
        LET row == find_profile(profiles, request.profile_id)
            skills == profiles[row].skills
            skill_index == find_skill(skills, request.skill_name)
        IN /\ calls[q].at = "start"
           /\ calls' = [calls EXCEPT ![q] =
                 IF row = 0 \/ skill_index = 0
                 THEN [NotCalled EXCEPT !.at = "done", !.request = request, !.row = row]
                 ELSE [at |-> "selected", request |-> request, row |-> row,
                       skill_index |-> skill_index,
                       skills |-> [skills EXCEPT ![skill_index] = apply_action(@, request)],
                       previous_state |-> skills[skill_index], success |-> FALSE]]
           /\ UNCHANGED <<pc, matcherVars, engineVars, scoreVars, mergeVars, serviceVars, lifecycleVars, processVars, job>>

\* update_skill_action from the update statement to its return
Write(q) ==
    LET call == calls[q]
    IN /\ call.at = "selected"
       /\ profiles' = [profiles EXCEPT ![call.row].skills = call.skills]
       /\ audit' = Append(audit, audit_log(call.request, call.previous_state,
                                           call.skills[call.skill_index]))
       /\ calls' = [calls EXCEPT ![q].at = "done", ![q].success = TRUE]
       /\ UNCHANGED <<pc, last, response, succeeded, processVars, job, matcherVars, engineVars, scoreVars, mergeVars>>

RaceNext == \E q \in Coroutines : Select(q) \/ Write(q)

SpecRace == LifecycleInit /\ [][RaceNext]_vars

(***************************************************************************)
(* The process from its start: the taxonomy file, the index cached in the  *)
(* class attribute SkillMatcher._cache, and the shared matcher.  A thread   *)
(* that constructs a SkillMatcher can be suspended between any two of its   *)
(* statements; a call of shared() and a call of match are single steps.    *)
(***************************************************************************)
\* a record of the file without the key skill_name
Nameless == [aliases |-> <<>>, esco_id |-> None, category |-> "technical"]

\* a file that is missing, one that is no JSON, one whose records are well
\* formed, and one whose second record lacks skill_name
TaxonomyFiles ==
    {TaxonomyFile(FALSE, FALSE, <<>>),
     TaxonomyFile(TRUE, FALSE, <<>>),
     TaxonomyFile(TRUE, TRUE, <<ModelTaxonomy[1], ModelTaxonomy[2]>>),
     TaxonomyFile(TRUE, TRUE, <<ModelTaxonomy[1], Nameless, ModelTaxonomy[2]>>)}

\* the sets given to shared(): none, the set of SkillExtractionService, and
\* the set of a caller that excludes a skill of the taxonomy
ExclusionSets == {{}, excluded_skills, {<<"P","y","t","h","o","n">>}}

SharedTexts == {<<"P","y","t","h","o","n"," ","a","n","d"," ","D","o","c","k","e","r">>, <<"e","x","p","e","r","t"," ","i","n"," ","D","o","c","k","e","r">>}

ProcessInit ==
    /\ pc = "idle"
    /\ EngineIdle /\ ScoreIdle /\ MergeIdle /\ ServiceIdle
    /\ LifecycleIdle /\ calls = [q \in Coroutines |-> NotCalled] /\ job = NoJob
    /\ taxonomy_file \in TaxonomyFiles
    /\ taxonomy = read_taxonomy(taxonomy_file)
    /\ cache = None /\ cache_id = 0 /\ built = 0
    /\ excluded = {}
    /\ threads = [q \in Threads |-> NotStarted]
    /\ shared = [NoCaller EXCEPT !.instance = FALSE]

\* SkillMatcher.__init__: the test SkillMatcher._cache is None
CheckCache(q) ==
    /\ threads[q].at = "start"
    /\ threads' = [threads EXCEPT ![q].at = IF cache_id = 0 THEN "build" ELSE "read"]
    /\ UNCHANGED <<pc, matcherVars, engineVars, scoreVars, mergeVars, serviceVars, lifecycleVars, calls, job>>
    /\ UNCHANGED <<taxonomy_file, built, cache_id, shared>>

\* SkillMatcher.__init__: SkillMatcher._cache = self._build_index(taxonomy_mapper)
BuildIndex(q) ==
    /\ threads[q].at = "build"
    /\ built' = built + 1
    /\ cache' = build_index(taxonomy)
    /\ cache_id' = built'
    /\ threads' = [threads EXCEPT ![q].at = "read"]
    /\ UNCHANGED <<pc, taxonomy, excluded, engineVars, scoreVars, mergeVars, serviceVars, lifecycleVars, calls, job>>
    /\ UNCHANGED <<taxonomy_file, shared>>

\* SkillMatcher.__init__: cache = SkillMatcher._cache; self.index = cache["index"]
ReadCache(q) ==
    /\ threads[q].at = "read"
    /\ threads' = [threads EXCEPT ![q] = [at |-> "done", index_id |-> cache_id]]
    /\ UNCHANGED <<pc, matcherVars, engineVars, scoreVars, mergeVars, serviceVars, lifecycleVars, calls, job>>
    /\ UNCHANGED <<taxonomy_file, built, cache_id, shared>>

\* SkillMatcher.shared: the exclusion set of the shared instance after a call
\* that gives the set given
shared_excluded(instance, current, given) ==
    IF ~instance THEN {Lower(x) : x \in given}
    ELSE IF given # {} THEN current \cup {Lower(x) : x \in given}
    ELSE current

\* SkillMatcher.shared(taxonomy_mapper, excluded), which constructs the
\* instance, and with it the index, when there is none
Shared ==
    \E given \in ExclusionSets :
        /\ shared.at \in {"idle", "matched"}
        /\ excluded' = shared_excluded(shared.instance, excluded, given)
        /\ shared' = [instance |-> TRUE, at |-> "shared", excluded |-> given,
                      text |-> <<>>, matches |-> <<>>]
        /\ IF ~shared.instance /\ cache_id = 0
           THEN built' = built + 1 /\ cache' = build_index(taxonomy) /\ cache_id' = built'
           ELSE UNCHANGED <<built, cache, cache_id>>
        /\ UNCHANGED <<pc, taxonomy, engineVars, scoreVars, mergeVars, serviceVars, lifecycleVars, calls, job>>
        /\ UNCHANGED <<taxonomy_file, threads>>

\* match(text) on the matcher shared() returned
MatchShared ==
    \E t \in SharedTexts :
        /\ shared.at = "shared"
        /\ shared' = [shared EXCEPT !.at = "matched", !.text = t,
                                    !.matches = match(t, cache, excluded)]
        /\ UNCHANGED <<pc, matcherVars, engineVars, scoreVars, mergeVars, serviceVars, lifecycleVars, calls, job>>
        /\ UNCHANGED <<taxonomy_file, built, cache_id, threads>>

ProcessNext ==
    \/ \E q \in Threads : CheckCache(q) \/ BuildIndex(q) \/ ReadCache(q)
    \/ Shared
    \/ MatchShared

SpecProcess == ProcessInit /\ [][ProcessNext]_vars

(***************************************************************************)
(* JobMatchingService.match_job.  The mentions _extract_job_skills found    *)
(* are given as the list job_skills of (name, section) pairs; the cosine    *)
(* similarity of two embeddings is given, in hundredths, for each pair of   *)
(* a profile-skill key and a mention key, and failed is the set of mention  *)
(* keys for which embed() raised.                                           *)
(***************************************************************************)
\* _get_skill_embeddings of the skills that are not rejected: a dict from the
\* lowercase name to the skill
RECURSIVE get_skill_embeddings(_, _)
get_skill_embeddings(d, skills) ==
    IF skills = <<>> THEN d
    ELSE get_skill_embeddings(IF Head(skills).manual_status # "rejected"
                              THEN dict_set(d, Lower(Head(skills).name), Head(skills))
                              ELSE d,
                              Tail(skills))

\* the similarity _match_skills uses for one profile skill and one mention
used_similarity(similarity, user_skill_key, job_skill_key) ==
    IF \/ user_skill_key = job_skill_key
       \/ Contains(job_skill_key, user_skill_key)
       \/ Contains(user_skill_key, job_skill_key)
    THEN Max(similarity[<<user_skill_key, job_skill_key>>], 95)
    ELSE similarity[<<user_skill_key, job_skill_key>>]

\* the inner loop of _match_skills: best is [score, match], match the
\* position in user_embeddings of best_match, 0 for None
RECURSIVE best_match(_, _, _, _, _)
best_match(user_embeddings, similarity, job_skill_key, k, best) ==
    IF k > Len(user_embeddings) THEN best
    ELSE LET s == used_similarity(similarity, user_embeddings[k].key, job_skill_key)
         IN best_match(user_embeddings, similarity, job_skill_key, k + 1,
                       IF s > best.score THEN [score |-> s, match |-> k] ELSE best)

RECURSIVE insert_by_score(_, _)
insert_by_score(sorted, item) ==
    IF sorted = <<>> THEN <<item>>
    ELSE IF Head(sorted).score >= item.score
         THEN <<Head(sorted)>> \o insert_by_score(Tail(sorted), item)
         ELSE <<item>> \o sorted

\* matched_skills.sort(key=lambda x: x.score, reverse=True)
RECURSIVE sort_by_score(_, _)
sort_by_score(done, todo) ==
    IF todo = <<>> THEN done
    ELSE sort_by_score(insert_by_score(done, Head(todo)), Tail(todo))

\* TaxonomyMapper.get_category
get_category(mappings, skill_name) ==
    IF get_mapping(mappings, skill_name) # 0
    THEN mappings[get_mapping(mappings, skill_name)].category
    ELSE "technical"

\* the outer loop of _match_skills: [matched_skills, missing_skills]
RECURSIVE match_each(_, _, _, _, _, _)
match_each(mappings, user_embeddings, job_skills, failed, similarity, out) ==
    IF job_skills = <<>> THEN out
    ELSE LET job_skill_name == Head(job_skills).name
             job_skill_key == Lower(job_skill_name)
             best == best_match(user_embeddings, similarity, job_skill_key, 1,
                                [score |-> 70, match |-> 0])
             nxt == IF job_skill_key \in failed THEN out
                    ELSE IF best.match # 0
                    THEN [out EXCEPT !.matched_skills = Append(@,
                            [name |-> job_skill_name, score |-> best.score,
                             category |-> user_embeddings[best.match].val.category,
                             confidence |-> user_embeddings[best.match].val.confidence])]
                    ELSE [out EXCEPT !.missing_skills = Append(@,
                            [name |-> job_skill_name, estimated_gap |-> 80,
                             category |-> get_category(mappings, job_skill_name),
                             from_job_section |-> Head(job_skills).section])]
         IN match_each(mappings, user_embeddings, Tail(job_skills), failed, similarity, nxt)

\* _match_skills(user_skills, user_embeddings, job_skills, job_embeddings, top_k)
match_skills(mappings, user_embeddings, job_skills, failed, similarity, top_k) ==
    LET out == match_each(mappings, user_embeddings, job_skills, failed, similarity,
                          [matched_skills |-> <<>>, missing_skills |-> <<>>])
        sorted == sort_by_score(<<>>, out.matched_skills)
    IN [matched_skills |-> SubSeq(sorted, 1, Min(top_k, Len(sorted))),
        missing_skills |-> out.missing_skills]

\* _calculate_match_score, in hundredths
calculate_match_score(matched_count, total_job_skills) ==
    IF total_job_skills = 0 THEN 0
    ELSE round_half_even(matched_count * 100, total_job_skills)

\* match_job for the profile of position row, 0 for no profile
match_job(rows, mappings, row, job_skills, failed, similarity, top_k) ==
    IF row = 0
    THEN [found |-> FALSE, match_score |-> 0, matched_skills |-> <<>>, missing_skills |-> <<>>]
    ELSE LET out == match_skills(mappings, get_skill_embeddings(<<>>, rows[row].skills),
                                 job_skills, failed, similarity, top_k)
         IN [found |-> TRUE,
             match_score |-> calculate_match_score(Len(out.matched_skills), Len(job_skills)),
             matched_skills |-> out.matched_skills,
             missing_skills |-> out.missing_skills]

\* the profile of the job matcher: SQL, Python and Docker, Docker rejected
JobProfiles ==
    LET created == <<[profile_id |-> 1, resume_id |-> "r1",
                      skills |-> profile_skills(<<"-"," ","S","Q","L",","," ","P","y","t","h","o","n",","," ","D","o","c","k","e","r">>, NoData, NoGithub,
                                                ModelTaxonomy, build_index(ModelTaxonomy),
                                                {Lower(x) : x \in excluded_skills}),
                      privacy_settings |-> privacy_settings]>>
        reject == [profile_id |-> 1, skill_name |-> <<"d","o","c","k","e","r">>, action |-> "reject",
                   edited_name |-> <<>>, edited_category |-> ""]
    IN update_skill_action(created, <<>>, reject).profiles

\* the mentions of a job description, in the order _extract_job_skills
\* finds them: by section, then by pattern
Mentions ==
    <<[name |-> <<"P","y","t","h","o","n">>, section |-> "requirements"],
      [name |-> <<"G","o">>, section |-> "requirements"],
      [name |-> <<"D","o","c","k","e","r">>, section |-> "requirements"],
      [name |-> <<"P","o","s","t","g","r","e","S","Q","L">>, section |-> "responsibilities"]>>

\* the most mentions of a job description, and the largest top_k
MaxMentions == 2

RECURSIVE MentionsOf(_, _)
MentionsOf(n, lo) ==
    IF n = 0 THEN {<<>>}
    ELSE UNION {{<<Mentions[i]>> \o l : l \in MentionsOf(n - 1, i + 1)}
                : i \in lo..Len(Mentions)}

JobSkills == UNION {MentionsOf(n, 1) : n \in 0..MaxMentions}

\* cosine similarities: low, at the threshold, and above the forced 0.95
Similarities == {30, 70, 96}

\* the keys of user_embeddings for the profile of position row
UserKeys(rows, row) ==
    IF row = 0 THEN {}
    ELSE {Lower(rows[row].skills[i].name) :
            i \in {j \in 1..Len(rows[row].skills) : rows[row].skills[j].manual_status # "rejected"}}

JobInit ==
    /\ pc = "idle"
    /\ MatcherInit /\ EngineIdle /\ ScoreIdle /\ MergeIdle
    /\ profiles = JobProfiles /\ last = NoCall
    /\ OtherIdle

\* JobMatchingService.match_job(request)
MatchJob ==
    \E profile_id \in {1, 2}, top_k \in 1..MaxMentions, job_skills \in JobSkills :
        LET keys == {Lower(job_skills[i].name) : i \in 1..Len(job_skills)}
            row == find_profile(profiles, profile_id)
        IN \E failed \in {{}} \cup {{k} : k \in keys}, similarity \in [UserKeys(profiles, row) \X keys -> Similarities] :
            LET out == match_job(profiles, taxonomy, row, job_skills, failed, similarity, top_k)
            IN /\ job = NoJob
               /\ job' = [profile_id |-> profile_id, top_k |-> top_k, job_skills |-> job_skills,
                          similarity |-> similarity, failed |-> failed, found |-> out.found,
                          match_score |-> out.match_score,
                          matched_skills |-> out.matched_skills,
                          missing_skills |-> out.missing_skills]
               /\ UNCHANGED <<pc, matcherVars, engineVars, scoreVars, mergeVars, serviceVars, lifecycleVars, calls, processVars>>

SpecJob == JobInit /\ [][MatchJob]_vars

(***************************************************************************)
(* JobMatchingService._extract_job_skills: the fixed patterns, the         *)
(* sections of the job description, and the mentions found in them         *)
(***************************************************************************)
\* the alternatives of the seven patterns, in their order; an optional dot
\* gives the alternative with the dot and then the one without
patterns ==
    << <<<<"P","y","t","h","o","n">>, <<"J","a","v","a","S","c","r","i","p","t">>, <<"T","y","p","e","S","c","r","i","p","t">>, <<"J","a","v","a">>, <<"C","+","+">>, <<"R","u","b","y">>, <<"G","o">>, <<"R","u","s","t">>,
         <<"S","w","i","f","t">>, <<"K","o","t","l","i","n">>>>,
       <<<<"R","e","a","c","t">>, <<"A","n","g","u","l","a","r">>, <<"V","u","e",".","j","s">>, <<"V","u","e","j","s">>, <<"N","e","x","t",".","j","s">>, <<"N","e","x","t","j","s">>, <<"N","o","d","e",".","j","s">>, <<"N","o","d","e","j","s">>,
         <<"E","x","p","r","e","s","s">>, <<"D","j","a","n","g","o">>, <<"F","l","a","s","k">>, <<"F","a","s","t","A","P","I">>>>,
       <<<<"A","W","S">>, <<"A","z","u","r","e">>, <<"G","C","P">>, <<"D","o","c","k","e","r">>, <<"K","u","b","e","r","n","e","t","e","s">>, <<"J","e","n","k","i","n","s">>, <<"G","i","t","L","a","b">>, <<"C","i","r","c","l","e","C","I">>>>,
       <<<<"S","Q","L">>, <<"P","o","s","t","g","r","e","S","Q","L">>, <<"M","y","S","Q","L">>, <<"M","o","n","g","o","D","B">>, <<"R","e","d","i","s">>, <<"E","l","a","s","t","i","c","s","e","a","r","c","h">>>>,
       <<<<"M","a","c","h","i","n","e"," ","L","e","a","r","n","i","n","g">>, <<"D","e","e","p"," ","L","e","a","r","n","i","n","g">>, <<"N","L","P">>, <<"C","o","m","p","u","t","e","r"," ","V","i","s","i","o","n">>, <<"D","a","t","a"," ","S","c","i","e","n","c","e">>>>,
       <<<<"T","e","n","s","o","r","F","l","o","w">>, <<"P","y","T","o","r","c","h">>, <<"S","c","i","k","i","t","-","l","e","a","r","n">>, <<"K","e","r","a","s">>, <<"P","a","n","d","a","s">>, <<"N","u","m","P","y">>>>,
       <<<<"G","i","t">>, <<"A","g","i","l","e">>, <<"S","c","r","u","m">>, <<"D","e","v","O","p","s">>, <<"C","I","/","C","D">>, <<"M","i","c","r","o","s","e","r","v","i","c","e","s">>, <<"R","E","S","T","f","u","l"," ","A","P","I">>>> >>

\* the assertion \b of re at offset i
word_boundary(s, i) ==
    (i > 0 /\ IsWordChar(s[i])) # (i < Len(s) /\ IsWordChar(s[i + 1]))

\* one alternative between two \b matches at offset i, with re.IGNORECASE:
\* folded is the text in lowercase
alternative_at(folded, i, term) ==
    /\ word_boundary(folded, i)
    /\ StartsWithAt(folded, i, Lower(term))
    /\ word_boundary(folded, i + Len(term))

RECURSIVE finditer_from(_, _, _, _)
\* the matches of a pattern from offset i on: the leftmost match, of the
\* first alternative that matches there
finditer_from(pattern, s, folded, i) ==
    IF i >= Len(s) THEN <<>>
    ELSE LET hits == {k \in 1..Len(pattern) : alternative_at(folded, i, pattern[k])}
             k == CHOOSE h \in hits : \A g \in hits : h <= g
         IN IF hits = {} THEN finditer_from(pattern, s, folded, i + 1)
            ELSE <<Slice(s, i, i + Len(pattern[k]))>>
                 \o finditer_from(pattern, s, folded, i + Len(pattern[k]))

\* [m.group(0) for m in re.finditer(pattern, s, re.IGNORECASE)]
pattern_finditer(pattern, s) == finditer_from(pattern, s, Lower(s), 0)

\* a header of the words given, with or without its last s, and a colon
header_at(s, i, words) ==
    \E w \in words : StartsWithAt(s, i, w \o <<":">>) \/ StartsWithAt(s, i, w \o <<"s",":">>)

\* re.search(...).start() for a header pattern, -1 for None
header_search(s, words) ==
    LET found == {i \in 0..Len(s) : header_at(s, i, words)}
    IN IF found = {} THEN -1 ELSE CHOOSE i \in found : \A j \in found : i <= j

\* _split_into_sections(job_text)
split_into_sections(job_text) ==
    LET text_lower == Lower(job_text)
        req_match == header_search(text_lower, {<<"r","e","q","u","i","r","e","m","e","n","t">>, <<"q","u","a","l","i","f","i","c","a","t","i","o","n">>, <<"s","k","i","l","l">>})
        resp_match == header_search(text_lower, {<<"r","e","s","p","o","n","s","i","b","i","l","i","t","i","e">>, <<"d","u","t","i","e">>})
    IN [requirements |->
            IF req_match >= 0
            THEN Slice(job_text, req_match,
                       IF resp_match >= 0 /\ resp_match > req_match THEN resp_match
                       ELSE Len(job_text))
            ELSE <<>>,
        responsibilities |->
            IF resp_match >= 0
            THEN Slice(job_text, resp_match,
                       IF req_match >= 0 /\ req_match > resp_match THEN req_match
                       ELSE Len(job_text))
            ELSE <<>>,
        qualifications |-> <<>>,
        other |-> IF req_match < 0 /\ resp_match < 0 THEN job_text ELSE <<>>]

section_names == <<"requirements", "responsibilities", "qualifications", "other">>

RECURSIVE section_skills(_, _, _)
\* the loop over the patterns for one section, from pattern k on
section_skills(section_name, section_text, k) ==
    IF k > Len(patterns) THEN <<>>
    ELSE LET found == pattern_finditer(patterns[k], section_text)
         IN [i \in 1..Len(found) |-> [name |-> found[i], section |-> section_name]]
            \o section_skills(section_name, section_text, k + 1)

RECURSIVE unique_skills(_, _)
\* the loop that removes the later mentions of a lowercase name
unique_skills(skills, seen) ==
    IF skills = <<>> THEN <<>>
    ELSE IF Lower(Head(skills).name) \in seen THEN unique_skills(Tail(skills), seen)
    ELSE <<Head(skills)>> \o unique_skills(Tail(skills), seen \cup {Lower(Head(skills).name)})

\* _extract_job_skills(job_text)
extract_job_skills(job_text) ==
    LET sections == split_into_sections(job_text)
        of(k) == section_skills(section_names[k], sections[section_names[k]], 1)
    IN unique_skills(of(1) \o of(2) \o of(3) \o of(4), {})

\* the lines job descriptions are made of
JobLines ==
    << <<"W","e"," ","b","u","i","l","d"," ","P","y","t","h","o","n"," ","s","e","r","v","i","c","e","s">>, <<"R","e","q","u","i","r","e","m","e","n","t","s",":"," ","D","o","c","k","e","r",","," ","S","Q","L">>,
       <<"R","e","s","p","o","n","s","i","b","i","l","i","t","i","e","s",":"," ","d","e","p","l","o","y"," ","K","u","b","e","r","n","e","t","e","s">>, <<"S","k","i","l","l","s",":"," ","G","o"," ","a","n","d"," ","p","y","t","h","o","n">>,
       <<"D","u","t","i","e","s",":"," ","r","u","n"," ","C","I","/","C","D">>, <<"N","o","d","e",".","j","s"," ","o","r"," ","C","+","+"," ","i","s"," ","a"," ","p","l","u","s">> >>

\* the number of lines of a job description
MaxJobLines == 3

RECURSIVE JobTextsOf(_)
\* the texts of n different lines, in any order
JobTextsOf(n) ==
    IF n = 1 THEN {[lines |-> {i}, text |-> JobLines[i]] : i \in 1..Len(JobLines)}
    ELSE {[lines |-> t.lines \cup {i}, text |-> t.text \o <<"\n">> \o JobLines[i]] :
             t \in JobTextsOf(n - 1), i \in 1..Len(JobLines)}

JobTexts == {t.text : t \in {u \in UNION {JobTextsOf(n) : n \in 1..MaxJobLines} :
                                  Cardinality(u.lines) = Len(SelectSeq(u.text, LAMBDA c : c = "\n")) + 1}}

\* JobMatchingService._extract_job_skills(job_text)
ExtractJobSkills ==
    /\ job = NoJob
    /\ \E job_text \in JobTexts :
          job' = [job_text |-> job_text, job_skills |-> extract_job_skills(job_text)]
    /\ UNCHANGED <<pc, matcherVars, engineVars, scoreVars, mergeVars, serviceVars, lifecycleVars, calls, processVars>>

SpecJobText == JobInit /\ [][ExtractJobSkills]_vars

(***************************************************************************)
(* Properties of the matching engine                                       *)
(***************************************************************************)
Scanned == pc \in {"match", "extract_skills"}

returned == Range(matches)
candidates == Range(raw_matches)

Names(ms) == {m.entry.canonical_name : m \in ms}

SkillNames == {skill_list[i].name : i \in 1..Len(skill_list)}

\* C1: the text "5+ years of experience with Python and strong knowledge of
\* Docker." yields exactly two SkillItems, Python and Docker, each with
\* confidence >= 0.55 and exactly one evidence item of score >= 0.85
C1_TwoSkillItems ==
    (pc = "extract_skills" /\ text = TextC1 /\ arg_structured = NoData) =>
        /\ Len(skill_list) = 2
        /\ SkillNames = {<<"P","y","t","h","o","n">>, <<"D","o","c","k","e","r">>}
        /\ \A i \in 1..Len(skill_list) :
               /\ skill_list[i].confidence >= 55
               /\ Len(skill_list[i].evidence) = 1
               /\ skill_list[i].evidence[1].score >= 85

\* the spans of two matches share a character
Overlap(a, b) == a.start < b.end /\ b.start < a.end

\* a is preferred to b: more tokens, or as many and a longer span
Longer(a, b) ==
    \/ Len(a.entry.tokens) > Len(b.entry.tokens)
    \/ (Len(a.entry.tokens) = Len(b.entry.tokens) /\ a.end - a.start > b.end - b.start)

NotShorter(a, b) ==
    \/ Len(a.entry.tokens) > Len(b.entry.tokens)
    \/ (Len(a.entry.tokens) = Len(b.entry.tokens) /\ a.end - a.start >= b.end - b.start)

\* C2 as stated: of every two raw candidates of match whose spans overlap,
\* exactly one is returned, and it is the one with the longer token sequence
\* or, at equal token counts, the longer span
C2_ExactlyOneOfEachPair ==
    Scanned =>
        \A a \in candidates, b \in candidates :
            (a # b /\ Overlap(a, b) /\ a \in returned) =>
                (b \notin returned /\ Longer(a, b))

\* C2: match returns raw candidates only, no two of them overlap, and every
\* raw candidate that is not returned overlaps a returned one that has more
\* tokens or as many tokens and a span at least as long
C2_GreedyResolution ==
    Scanned =>
        /\ returned \subseteq candidates
        /\ \A a \in returned, b \in returned : a # b => ~Overlap(a, b)
        /\ \A b \in candidates \ returned :
               \E a \in returned : Overlap(a, b) /\ NotShorter(a, b)

\* a raw candidate is dropped though the returned one it overlaps is shorter
\* than it is: the candidate lost to a third, longer one
C2_Witness ==
    /\ pc = "match"
    /\ \E a \in returned, b \in candidates \ returned :
           Overlap(a, b) /\ Longer(b, a)

RECURSIVE ChunkStart(_, _)
\* the offset where the run of non-blank characters around offset i starts
ChunkStart(s, i) ==
    IF i > 0 /\ s[i] \notin Whitespace THEN ChunkStart(s, i - 1) ELSE i

RECURSIVE ChunkEnd(_, _)
ChunkEnd(s, i) ==
    IF i < Len(s) /\ s[i + 1] \notin Whitespace THEN ChunkEnd(s, i + 1) ELSE i

\* the match lies in a run of non-blank characters that is a URL or an email
\* address: the run holds "://", "www." or "@"
InsideUrlOrEmail(txt, m) ==
    LET chunk == Slice(txt, ChunkStart(txt, m.start), ChunkEnd(txt, m.end))
    IN ContainsAny(chunk, {<<":","/","/">>, <<"w","w","w",".">>, <<"@">>})

\* C3: match returns no match for an occurrence of a skill inside an email
\* address or a URL, whatever the top-level domain
C3_NoMatchInsideUrlOrEmail ==
    Scanned => \A m \in returned : ~InsideUrlOrEmail(text, m)

\* C4: resolve_phrase of a canonical skill name of the taxonomy returns an
\* entry, and its canonical_name is that name ignoring case
C4_CanonicalNamesResolveToThemselves ==
    (pc = "resolve_phrase"
     /\ \E i \in 1..Len(taxonomy) : taxonomy[i].skill_name = arg_phrase) =>
        /\ resolved # {}
        /\ \A e \in resolved : Lower(e.canonical_name) = Lower(arg_phrase)

RECURSIVE SpaceEnd(_, _)
\* the end of the run of white space of s that starts at offset i
SpaceEnd(s, i) ==
    IF i < Len(s) /\ s[i + 1] \in Whitespace THEN SpaceEnd(s, i + 1) ELSE i

\* \bexcel(?:led|s|ing)?\s+(?:at|in)\b is found in s
ExcelledAt(s) ==
    \E i \in 0..Len(s) : \E suffix \in {<<>>, <<"l","e","d">>, <<"s">>, <<"i","n","g">>} :
        LET word == <<"e","x","c","e","l">> \o suffix
            e == SpaceEnd(s, i + Len(word))
        IN /\ WordBoundary(s, i)
           /\ StartsWithAt(s, i, word)
           /\ e > i + Len(word)
           /\ \E w \in {<<"a","t">>, <<"i","n">>} :
                  StartsWithAt(s, e, w) /\ WordBoundary(s, e + Len(w))

\* C7: when the snippet holds excel, excels, excelled or excelling followed
\* by white space and at or in, match returns no Excel match for the
\* occurrence, also when a strict keyword is in the same snippet
C7_NegativeContextVetoes ==
    Scanned =>
        \A m \in returned :
            m.entry.tokens[1] = <<"e","x","c","e","l">> => ~ExcelledAt(Lower(m.snippet))

StrictKeywords == UNION {r.keywords : r \in STRICT_CONTEXT_TERMS}

\* C8: scanning "Skills: Excel, Word, PowerPoint" returns a match for Excel
\* and a match for Word, entries that require context, though no strict
\* keyword occurs in the text
C8_ListContextAllowsExcelAndWord ==
    (pc = "match" /\ text = TextC8) =>
        /\ \E m \in returned :
               /\ m.entry.canonical_name = <<"E","x","c","e","l">> /\ m.entry.requires_context
               /\ m.matched_text = <<"E","x","c","e","l">>
        /\ \E m \in returned :
               /\ m.entry.canonical_name = <<"W","o","r","d">> /\ m.entry.requires_context
               /\ m.matched_text = <<"W","o","r","d">>
        /\ ~ContainsAny(Lower(text), StrictKeywords)

C8_Witness ==
    /\ pc = "match" /\ text = TextC8
    /\ Names(returned) = {<<"E","x","c","e","l">>, <<"W","o","r","d">>}

(***************************************************************************)
(* Properties of the service, of _merge_skills and of the scoring          *)
(***************************************************************************)
\* C5: no SkillItem of a skill list stored by create_skill_profile has a
\* confidence below 0.55, whatever it was extracted from
C5_PersistedSkillsReachMinimum ==
    \A i \in 1..Len(profiles) : \A k \in 1..Len(profiles[i].skills) :
        profiles[i].skills[k].confidence >= 55

\* a profile was stored for a call with an external profile that has
\* languages, and it holds skills from the text and from the structured data
C5_Witness ==
    /\ last.created
    /\ last.github_data.present /\ last.github_data.languages # <<>>
    /\ LET stored == profiles[last.profile_id].skills
       IN /\ \E k \in 1..Len(stored) : \E e \in Range(stored[k].evidence) : e.source = "resume"
          /\ \E k \in 1..Len(stored) : \E e \in Range(stored[k].evidence) : e.source = "structured"

Keys(skills) == {Lower(skills[i].name) : i \in 1..Len(skills)}

WithKey(skills, key) == {i \in 1..Len(skills) : Lower(skills[i].name) = key}

TheOne(skills, key) == skills[CHOOSE i \in WithKey(skills, key) : TRUE]

\* C6: after _merge_skills every name has one SkillItem; for a name that is
\* once in each list its confidence is the larger of the two and its evidence
\* is the resume evidence followed by the external evidence; a skill that is
\* only in the external list, once, is in the result unchanged
C6_MergeKeepsEvidenceOfBoth ==
    pc = "merge_skills" =>
        \A key \in Keys(merge_resume) \cup Keys(merge_github) :
            LET nr == Cardinality(WithKey(merge_resume, key))
                ng == Cardinality(WithKey(merge_github, key))
            IN /\ Cardinality(WithKey(merged, key)) = 1
               /\ (nr = 1 /\ ng = 1) =>
                      LET r == TheOne(merge_resume, key)
                          g == TheOne(merge_github, key)
                          m == TheOne(merged, key)
                      IN /\ m.confidence = Max(r.confidence, g.confidence)
                         /\ m.evidence = r.evidence \o g.evidence
                         /\ m.name = r.name
               /\ (nr = 0 /\ ng = 1) => TheOne(merged, key) = TheOne(merge_github, key)

\* resume Python 0.6 merged with external Python 0.8 and an external-only Go
C6_Witness ==
    /\ pc = "merge_skills"
    /\ merge_resume = <<Item(<<"P","y","t","h","o","n">>, 60, "resume", 65, "S1")>>
    /\ merge_github = <<Item(<<"P","y","t","h","o","n">>, 80, "github", 90, None),
                        Item(<<"G","o">>, 50, "github", 70, None)>>
    /\ Len(merged) = 2
    /\ merged[1].confidence = 80 /\ Len(merged[1].evidence) = 2
    /\ merged[2] = merge_github[2]

Uniform(evidence) ==
    \A i \in 1..Len(evidence) :
        evidence[i].score = evidence[1].score /\ evidence[i].source = evidence[1].source

\* the second list is the first with the score of one item raised
RaisedOnce(first, second) ==
    /\ Len(first) = Len(second)
    /\ \E i \in 1..Len(first) :
           /\ second[i].score > first[i].score
           /\ second = [first EXCEPT ![i].score = second[i].score]

\* C9: an evidence list of items of one score and one source never gets a
\* lower confidence than the same list with one item less, and a list never
\* gets a lower confidence when the score of one item is raised so that the
\* maximum score rises
C9_ConfidenceIsMonotone ==
    [][/\ (/\ ev_list # <<>> /\ ev_list' = Append(ev_list, ev_list[1])
           /\ Uniform(ev_list'))
          => ev_confidence' >= ev_confidence
       /\ (/\ ev_list # <<>> /\ RaisedOnce(ev_list, ev_list')
           /\ MaxScore(ev_list') > MaxScore(ev_list))
          => ev_confidence' >= ev_confidence]_vars

\* a list of several items of one score and one source, whose confidence is
\* above that of its first item alone
C9_Witness ==
    /\ pc = "calculate_confidence"
    /\ Len(ev_list) >= 2 /\ Uniform(ev_list)
    /\ ev_confidence > calculate_confidence(<<ev_list[1]>>)

\* C10: a score of _score_evidence and a confidence of _calculate_confidence
\* are between 0 and 1, and the confidence of the empty list is 0
C10_ScoresInUnitInterval ==
    /\ scored.score \in 0..100
    /\ ev_confidence \in 0..100
    /\ (pc = "calculate_confidence" /\ ev_list = <<>>) => ev_confidence = 0

\* the bonuses of a snippet add up to more than 1 and the score returned is 1
C10_Witness ==
    /\ pc = "score_evidence"
    /\ raw_score(scored.snippet, scored.skill_name, scored.source,
                 scored.requires_context) > 100
    /\ scored.score = 100
\* C14: after any number of create_skill_profile calls for the same resume id
\* at most one SkillProfile exists for that resume; every call after the
\* first returns the profile id of the first and leaves the stored skills and
\* privacy settings unchanged, whatever data the later call supplies
C14_OneProfilePerResume ==
    [][/\ \A i, j \in 1..Len(profiles') :
            profiles'[i].resume_id = profiles'[j].resume_id => i = j
       /\ \A i \in 1..Len(profiles) :
            /\ Len(profiles') >= Len(profiles)
            /\ profiles'[i] = profiles[i]
            /\ profiles[i].resume_id = last'.resume_id =>
                  /\ last'.profile_id = profiles[i].profile_id
                  /\ last'.created = FALSE
                  /\ profiles' = profiles]_vars

\* a second call for the first resume, with an external profile the first
\* call did not have, once both resumes have a profile
C14_Witness ==
    /\ Len(profiles) = 2
    /\ last.created = FALSE
    /\ last.profile_id = 1
    /\ last.resume_id = profiles[1].resume_id
    /\ Len(last.github_data.repositories) = 1
    /\ Len(profiles[1].skills) = 2
    /\ profiles[1].skills # profiles[2].skills

(***************************************************************************)
(* Properties of the skill lifecycle                                       *)
(***************************************************************************)
\* the request of the call a step makes, and what it addresses in the table
\* before the step
Request == response'.request

HasProfile(request) == \E i \in 1..Len(profiles) : profiles[i].profile_id = request.profile_id

Named(skill, request) == Lower(skill.name) = Lower(request.skill_name)

\* skill k of row i is the one the request addresses: the first of the
\* profile with the requested name, ignoring case
Addressed(i, k, request) ==
    /\ profiles[i].profile_id = request.profile_id
    /\ Named(profiles[i].skills[k], request)
    /\ \A j \in 1..(k - 1) : ~Named(profiles[i].skills[j], request)

Addresses(request) ==
    \E i \in 1..Len(profiles) : \E k \in 1..Len(profiles[i].skills) : Addressed(i, k, request)

Called == response' # response \/ audit' # audit \/ profiles' # profiles

\* C11: update_skill_action on a profile id that does not exist, or on a
\* skill name that matches no skill of the profile ignoring case, returns
\* (False, message, None), leaves the stored skill list of every profile
\* unchanged and appends no audit record
C11_NotFoundChangesNothing ==
    [][Called /\ (~HasProfile(Request) \/ ~Addresses(Request))
       => /\ response'.success = FALSE
          /\ response'.message # <<>>
          /\ response'.updated_skill = None
          /\ \A i \in 1..Len(profiles) : profiles'[i].skills = profiles[i].skills
          /\ Len(profiles') = Len(profiles)
          /\ audit' = audit]_vars

\* an unknown skill name is reported after a transition was stored
C11_Witness ==
    /\ succeeded = 1
    /\ response.success = FALSE
    /\ response.request.profile_id = 1
    /\ response.request.skill_name = <<"G","o">>
    /\ response.message = <<"S","k","i","l","l"," ","'","G","o","'"," ","n","o","t"," ","f","o","u","n","d"," ","i","n"," ","p","r","o","f","i","l","e">>

\* C12: every successful update_skill_action appends exactly one audit
\* record for the addressed profile and skill, whose previous_value is the
\* skill's state immediately before the transition and whose new_value is
\* its state immediately after it; the number of audit records equals the
\* number of successful transitions
C12_OneAuditRecordPerTransition ==
    [][/\ Len(audit') = succeeded'
       /\ succeeded' # succeeded =>
            \E i \in 1..Len(profiles) : \E k \in 1..Len(profiles[i].skills) :
                /\ Addressed(i, k, Request)
                /\ Len(audit') = Len(audit) + 1
                /\ SubSeq(audit', 1, Len(audit)) = audit
                /\ audit'[Len(audit')].profile_id = Request.profile_id
                /\ audit'[Len(audit')].skill_name = Request.skill_name
                /\ audit'[Len(audit')].action = Request.action
                /\ audit'[Len(audit')].previous_value = profiles[i].skills[k]
                /\ audit'[Len(audit')].new_value = profiles'[i].skills[k]]_vars

\* a second transition of one skill: its record holds the status the first
\* one gave
C12_Witness ==
    /\ Len(audit) = 2
    /\ audit[1].profile_id = audit[2].profile_id
    /\ Lower(audit[1].skill_name) = Lower(audit[2].skill_name)
    /\ audit[1].new_value.manual_status = "accepted"
    /\ audit[2].previous_value.manual_status = "accepted"
    /\ audit[2].new_value.manual_status = "rejected"

\* the fields of a SkillItem but those of the set given
Fields == {"skill_id", "name", "category", "confidence", "evidence", "mapped_taxonomy_id", "manual_status", "edited_name", "tags"}

SameBut(before, after, changed) == \A f \in Fields \ changed : after[f] = before[f]

\* C13: no lifecycle transition changes the confidence or the evidence list
\* of any skill: accept and reject change only manual_status of the addressed
\* skill, edit changes only manual_status and, when supplied, edited_name and
\* category of the addressed skill, and every other skill is left unchanged
C13_TransitionsChangeOnlyTheAddressedStatus ==
    [][/\ Len(profiles') = Len(profiles)
       /\ \A i \in 1..Len(profiles) :
            /\ Len(profiles'[i].skills) = Len(profiles[i].skills)
            /\ \A k \in 1..Len(profiles[i].skills) :
                 LET before == profiles[i].skills[k]
                     after == profiles'[i].skills[k]
                 IN /\ after.confidence = before.confidence
                    /\ after.evidence = before.evidence
                    /\ ~Addressed(i, k, Request) => after = before
                    /\ Request.action \in {"accept", "reject"} => SameBut(before, after, {"manual_status"})
                    /\ Request.action = "edit" =>
                          SameBut(before, after,
                                  {"manual_status"}
                                  \cup (IF Request.edited_name # <<>> THEN {"edited_name"} ELSE {})
                                  \cup (IF Request.edited_category # "" THEN {"category"} ELSE {}))]_vars

\* an accept of the second skill of a profile, after an edit of the first
\* that supplied a name and a category
C13_Witness ==
    /\ Len(audit) = 2
    /\ audit[1].profile_id = 1 /\ audit[2].profile_id = 1
    /\ audit[1].action = "edit" /\ audit[2].action = "accept"
    /\ profiles[1].skills[1].edited_name = <<"P","y">>
    /\ profiles[1].skills[1].category = "soft"
    /\ profiles[1].skills[1].manual_status = "edited"
    /\ profiles[1].skills[2].manual_status = "accepted"

(***************************************************************************)
(* Properties of overlapping calls                                         *)
(***************************************************************************)
StatusOf(action) == IF action = "accept" THEN "accepted" ELSE "rejected"

\* both calls have returned True, for two skills of one profile
BothStored ==
    /\ \A q \in Coroutines : calls[q].at = "done" /\ calls[q].success
    /\ calls["a"].row = calls["b"].row
    /\ calls["a"].skill_index # calls["b"].skill_index

\* C15: when two update_skill_action calls on the same profile overlap in time
\* the stored skill list afterwards reflects both transitions: a transition
\* on skill A is never lost because a concurrent transition on skill B wrote
\* back a list read before A's change
C15_OverlappingTransitionsAreBothStored ==
    BothStored =>
        \A q \in Coroutines :
            profiles[calls[q].row].skills[calls[q].skill_index].manual_status
                = StatusOf(calls[q].request.action)

(***************************************************************************)
(* Properties of the process                                               *)
(***************************************************************************)
\* C16: the taxonomy index held in SkillMatcher._cache is built at most once
\* per process: when several SkillMatcher constructions start while the cache
\* is still empty, _build_index runs only once, and every matcher afterwards
\* reads the same index object
C16_IndexBuiltOnce ==
    /\ built <= 1
    /\ \A q, r \in Threads :
          threads[q].at = "done" /\ threads[r].at = "done"
              => threads[q].index_id = threads[r].index_id

\* C17: the result of a scan depends only on the text, the index and the
\* exclusion set supplied by that caller: exclusion terms passed to
\* SkillMatcher.shared by one caller do not change the matches returned to a
\* later caller that passed a different (or no) exclusion set
C17_MatchesDependOnOwnExclusions ==
    shared.at = "matched"
        => shared.matches = match(shared.text, cache, {Lower(x) : x \in shared.excluded})

\* the file is missing or malformed: open() or json.load fails, or a record
\* lacks skill_name
Malformed(file) ==
    \/ ~file.found
    \/ ~file.parsed
    \/ \E i \in 1..Len(file.records) : "skill_name" \notin DOMAIN file.records[i]

\* C18: when the taxonomy source is missing or malformed (including a source
\* in which some later record is malformed) the resulting mapper and index
\* are empty, and match on any text returns an empty list
C18_MalformedSourceGivesEmptyIndex ==
    Malformed(taxonomy_file) /\ cache_id # 0
        => /\ load_taxonomy(taxonomy) = <<>>
           /\ cache.index = <<>>
           /\ cache.normalized_lookup = <<>>
           /\ shared.at = "matched" => shared.matches = <<>>

(***************************************************************************)
(* Properties of job matching                                              *)
(***************************************************************************)
JobKeys == {Lower(job.job_skills[i].name) : i \in 1..Len(job.job_skills)}

Reported(list, name) == \E i \in 1..Len(list) : list[i].name = name

\* the mentions that were matched: those with an embedding that are not
\* reported as missing
MatchedCount == Len(job.job_skills) - Cardinality(job.failed) - Len(job.missing_skills)

\* C19: the match_score returned by match_job equals the number of
\* job-description mentions that were matched divided by the total number of
\* deduplicated mentions, rounded to 2 decimals, and is 0 when there are no
\* mentions, for every top_k and also when more than top_k mentions match
C19_ScoreIsMatchedOverTotal ==
    job.found =>
        job.match_score =
            IF Len(job.job_skills) = 0 THEN 0
            ELSE (2 * 100 * MatchedCount + Len(job.job_skills)) \div (2 * Len(job.job_skills))

\* the profile skills that take part: those that are not rejected
Candidates == UserKeys(profiles, find_profile(profiles, job.profile_id))

Similar(key) == \E u \in Candidates : job.similarity[<<u, key>>] > 70

\* the lowercase mention equals a profile skill's lowercase name or is a
\* substring of it
NamedBy(key) == \E u \in Candidates : Contains(u, key)

\* C20: a job mention is reported as matched exactly when its cosine
\* similarity to some non-rejected profile skill exceeds 0.7, or its lowercase
\* form equals or is a substring of a profile skill's lowercase name, in which
\* case the similarity used is 0.95; a mention for which neither holds (for
\* example one of which a profile skill name is only a substring) is reported
\* as a missing skill with estimated gap 0.8 and its section
C20_MatchedBySimilarityOrByName ==
    job.found /\ job.failed = {} /\ job.top_k >= Len(job.job_skills) =>
        \A i \in 1..Len(job.job_skills) :
            LET mention == job.job_skills[i]
                key == Lower(mention.name)
            IN /\ Reported(job.matched_skills, mention.name) <=> (Similar(key) \/ NamedBy(key))
               /\ NamedBy(key) =>
                     \E k \in 1..Len(job.matched_skills) :
                         /\ job.matched_skills[k].name = mention.name
                         /\ job.matched_skills[k].score = 95
               /\ ~(Similar(key) \/ NamedBy(key)) =>
                     \E k \in 1..Len(job.missing_skills) :
                         job.missing_skills[k] =
                             [name |-> mention.name, estimated_gap |-> 80,
                              category |-> job.missing_skills[k].category,
                              from_job_section |-> mention.section]

(***************************************************************************)
(* Properties of merged and stored skill lists                             *)
(***************************************************************************)
IsAggregated(item) == item.confidence = calculate_confidence(item.evidence)

AllAggregated(items) == \A i \in 1..Len(items) : IsAggregated(items[i])

UniqueNames(items) ==
    \A i, j \in 1..Len(items) : Lower(items[i].name) = Lower(items[j].name) => i = j

Occurrences(seq, x) == Cardinality({i \in 1..Len(seq) : seq[i] = x})

SameMultiset(s1, s2) ==
    /\ Len(s1) = Len(s2)
    /\ \A i \in 1..Len(s1) : Occurrences(s1, s1[i]) = Occurrences(s2, s1[i])

\* the lowercase names of a list followed by another, each at its first place
RECURSIVE FirstSeen(_, _)
FirstSeen(items, seen) ==
    IF items = <<>> THEN <<>>
    ELSE IF Lower(Head(items).name) \in seen THEN FirstSeen(Tail(items), seen)
    ELSE <<Lower(Head(items).name)>>
         \o FirstSeen(Tail(items), seen \cup {Lower(Head(items).name)})

\* C22: _merge_skills is commutative in content and deterministic in order:
\* for two skill lists A and B with unique names, merge(A, B) and merge(B, A)
\* contain the same set of skill names and, for each name, the same
\* confidence, category, taxonomy id, tag set and multiset of evidence; and
\* the order of merge(A, B) is the order in which each lowercase name is
\* first seen when reading A then B.  Names are compared ignoring case
C22_MergeIsCommutativeInContent ==
    pc = "merge_skills" /\ UniqueNames(merge_resume) /\ UniqueNames(merge_github) =>
        LET swapped == merge_skills(merge_github, merge_resume)
        IN /\ {Lower(merged[i].name) : i \in 1..Len(merged)}
                 = {Lower(swapped[i].name) : i \in 1..Len(swapped)}
           /\ \A i \in 1..Len(merged) : \A j \in 1..Len(swapped) :
                 Lower(merged[i].name) = Lower(swapped[j].name) =>
                     /\ merged[i].confidence = swapped[j].confidence
                     /\ merged[i].category = swapped[j].category
                     /\ merged[i].mapped_taxonomy_id = swapped[j].mapped_taxonomy_id
                     /\ merged[i].tags = swapped[j].tags
                     /\ SameMultiset(merged[i].evidence, swapped[j].evidence)
           /\ [i \in 1..Len(merged) |-> Lower(merged[i].name)]
                 = FirstSeen(merge_resume \o merge_github, {})

\* the lowercase keys under which _extract_github_skills collects the
\* languages, technologies and project languages of the external data
GithubKeys(github_data) ==
    LET skills_dict == github_skills_dict(github_data)
    IN {skills_dict[i].key : i \in 1..Len(skills_dict)}

\* the skill list holds a skill of that lowercase name with external evidence
HasGithubEvidence(skills, key) ==
    \E i \in 1..Len(skills) :
        /\ Lower(skills[i].name) = key
        /\ \E j \in 1..Len(skills[i].evidence) : skills[i].evidence[j].source = "github"

\* C23: when the external-profile data of a new profile yields at least one
\* language, technology or project language, _extract_github_skills returns
\* without raising and the stored profile holds, for each distinct lowercase
\* key, a skill with the external evidence
C23_StoredProfileHoldsExternalEvidence ==
    last.created /\ last.github_data.present /\ GithubKeys(last.github_data) # {} =>
        /\ ~extract_github_skills(last.github_data).raised
        /\ \A key \in GithubKeys(last.github_data) :
              HasGithubEvidence(profiles[last.profile_id].skills, key)

\* the (lowercase canonical name, normalized phrase) pair of an index entry
EntryKey(entry) == <<Lower(entry.canonical_name), entry.normalized>>

\* C24: in the index of _build_index every (lowercase canonical name,
\* normalized phrase) pair appears at most once in the entry list of its first
\* token, also when several aliases of a skill give the same normalized token
\* sequence
C24_IndexEntriesAreUnique ==
    \A token \in DOMAIN cache.index :
        \A i, j \in 1..Len(cache.index[token]) :
            EntryKey(cache.index[token][i]) = EntryKey(cache.index[token][j]) => i = j

(***************************************************************************)
(* Properties of the lifecycle as a machine                                *)
(***************************************************************************)
\* the status an action sets
TargetStatus(action) ==
    IF action = "accept" THEN "accepted" ELSE IF action = "reject" THEN "rejected" ELSE "edited"

\* C25: the lifecycle is a total overwrite machine: the extracted skills of a
\* stored profile start as suggested; from any status, an accept, reject or
\* edit of a skill the profile holds succeeds and sets the status accepted,
\* rejected or edited; and a skill that has left suggested is never
\* suggested again
C25_LifecycleIsTotalOverwrite ==
    /\ \A i \in 1..Len(profiles) : \A k \in 1..Len(profiles[i].skills) :
          profiles[i].skills[k].manual_status = "suggested"
    /\ [][\A i \in 1..Len(profiles) : \A k \in 1..Len(profiles[i].skills) :
            /\ Addressed(i, k, Request) =>
                  /\ response'.success
                  /\ profiles'[i].skills[k].manual_status = TargetStatus(Request.action)
            /\ profiles[i].skills[k].manual_status # "suggested" =>
                  profiles'[i].skills[k].manual_status # "suggested"]_vars

\* an edit of a skill that a first request had rejected
C25_Witness ==
    /\ Len(audit) = 2
    /\ audit[1].profile_id = 2 /\ audit[2].profile_id = 2
    /\ audit[1].previous_value.manual_status = "suggested"
    /\ audit[1].new_value.manual_status = "rejected"
    /\ audit[2].action = "edit"
    /\ audit[2].previous_value.manual_status = "rejected"
    /\ profiles[2].skills[1].manual_status = "edited"

(***************************************************************************)
(* Properties of the exclusion rule                                        *)
(***************************************************************************)
\* a line of a list that holds the phrase alone
ListLine(phrase) == <<"-"," ">> \o phrase

\* the entries of the raw matches of match on the text
RawEntries(txt, excl) == {m.entry : m \in Range(scan(txt, cache, excl))}

\* match rejects the entry on a text of the phrase because of the exclusions
\* alone: without them the entry is a raw match, with them it is none
RejectedAsExcluded(entry, phrase) ==
    /\ entry \in RawEntries(ListLine(phrase), {})
    /\ entry \notin RawEntries(ListLine(phrase), excluded)

\* C26: match and resolve_phrase apply the same exclusion rule: an entry that
\* match rejects because its canonical name or its normalized alias phrase is
\* excluded is not returned by resolve_phrase on that alias phrase
C26_ResolvePhraseHonoursExclusions ==
    pc = "resolve_phrase" => \A entry \in resolved : ~RejectedAsExcluded(entry, arg_phrase)

(***************************************************************************)
(* Properties of the extracted skill list                                  *)
(***************************************************************************)
\* C27: the list _extract_skills returns holds no two SkillItems whose names
\* are equal ignoring case, also when the mapper resolves the canonical name
\* of the matcher to another record, one that has this name as an alias
C27_ExtractedNamesAreUnique ==
    pc = "extract_skills" => UniqueNames(skill_list)

(***************************************************************************)
(* Properties of the skills extracted from a job description               *)
(***************************************************************************)
\* the lowercase terms of the fixed patterns that occur in the text
Occurring(job_text) ==
    UNION {{Lower(name) : name \in Range(pattern_finditer(patterns[k], job_text))}
           : k \in 1..Len(patterns)}

Extracted == "job_text" \in DOMAIN job

\* C28: every term of the fixed patterns that occurs in the job description
\* is extracted by _extract_job_skills with a section tag, wherever it
\* stands: a mention before the first section header is extracted like one
\* after it
C28_EveryMentionIsExtracted ==
    Extracted =>
        \A name \in Occurring(job.job_text) :
            \E i \in 1..Len(job.job_skills) :
                /\ Lower(job.job_skills[i].name) = name
                /\ job.job_skills[i].section \in Range(section_names)

(***************************************************************************)
(* Properties of the strict context rule                                   *)
(***************************************************************************)
RECURSIVE Outside(_, _)
\* the text with each occurrence of the word replaced by one space
Outside(s, word) ==
    IF s = <<>> THEN <<>>
    ELSE IF StartsWithAt(s, 0, word) THEN <<" ">> \o Outside(Slice(s, Len(word), Len(s)), word)
    ELSE <<Head(s)>> \o Outside(Tail(s), word)

\* the text holds the word teams, no list glyph, no list header, and none of
\* the keywords of teams outside the word teams
TeamsWithoutKeyword(txt) ==
    /\ Contains(Lower(txt), <<"t","e","a","m","s">>)
    /\ ~is_list_context(txt, Lower(txt))
    /\ ~ContainsAny(Outside(Lower(txt), <<"t","e","a","m","s">>), {<<"m","i","c","r","o","s","o","f","t">>, <<"m","s">>})

\* C29: for a term under the strict rule the disambiguating keyword must
\* occur in the surrounding text and not merely inside the matched word: a
\* text where teams occurs with no list glyph, no skills, tools,
\* technologies or stack header, and no microsoft or ms outside the word
\* teams, yields no match for the skill teams
C29_KeywordMustStandOutsideTheWord ==
    pc = "match" /\ TeamsWithoutKeyword(text) =>
        \A m \in returned : m.entry.tokens[1] # <<"t","e","a","m","s">>

(***************************************************************************)
(* Properties of the name of an edited skill                               *)
(***************************************************************************)
\* the request is an edit that supplies a new name
Renames(request) == request.action = "edit" /\ request.edited_name # <<>>

\* C30: a skill stays addressable by its extracted name: the stored name of
\* a skill never changes, a request that names it succeeds whether or not an
\* edit has supplied a new name before, and edited_name is the new name of
\* the last edit that supplied one, through later accepts and rejects
C30_SkillKeepsItsExtractedName ==
    [][\A i \in 1..Len(profiles) : \A k \in 1..Len(profiles[i].skills) :
          LET before == profiles[i].skills[k]
              after == profiles'[i].skills[k]
          IN /\ after.name = before.name
             /\ Addressed(i, k, Request) => response'.success /\ response'.updated_skill = after
             /\ after.edited_name =
                   IF Addressed(i, k, Request) /\ Renames(Request) THEN Request.edited_name
                   ELSE before.edited_name]_vars

\* a reject that names the extracted name of a skill, after an edit that
\* supplied a new name for it
C30_Witness ==
    /\ Len(audit) = 2
    /\ audit[1].profile_id = 2 /\ audit[2].profile_id = 2
    /\ audit[1].action = "edit" /\ audit[1].new_value.edited_name = <<"P","y">>
    /\ audit[2].action = "reject" /\ audit[2].skill_name = <<"p","y","t","h","o","n">>
    /\ response.success
    /\ profiles[2].skills[1].name = <<"P","y","t","h","o","n">>
    /\ profiles[2].skills[1].edited_name = <<"P","y">>
    /\ profiles[2].skills[1].manual_status = "rejected"

================================================================================
